---- MODULE Spec2Model ----
(***************************************************************************)
(* Model of the casaIT device-communication engine:                        *)
(*   - OneWireBus._scan_bus / select_device   (services/i2cClasses)        *)
(*   - SMBus._send_command                    (services/smbus_proxy.py)    *)
(*   - DS18B20 / DS2438 / DS2413 state machines                            *)
(*   - CasaITApi locking discipline           (api.py)                     *)
(* Times are integers in milliseconds (time.time() * 1000).                *)
(***************************************************************************)
EXTENDS Integers, Sequences, FiniteSets, TLC

(***************************************************************************)
(* Byte arithmetic                                                         *)
(***************************************************************************)
RECURSIVE XorBits(_, _, _)
XorBits(a, b, n) ==
    IF n = 0 THEN 0
    ELSE (((a % 2) + (b % 2)) % 2) + 2 * XorBits(a \div 2, b \div 2, n - 1)

Xor8(a, b) == XorBits(a, b, 8)

RECURSIVE Pow2(_)
Pow2(k) == IF k = 0 THEN 1 ELSE 2 * Pow2(k - 1)

\* (byte >> k) & 0x01
BitOf(byte, k) == (byte \div Pow2(k)) % 2

\* byte | (1 << k)
SetBit(byte, k) == IF BitOf(byte, k) = 1 THEN byte ELSE byte + Pow2(k)

\* byte & ~(1 << k)
ClearBit(byte, k) == IF BitOf(byte, k) = 1 THEN byte - Pow2(k) ELSE byte

(***************************************************************************)
(* OneWireBus._calc_crc8: CRC8, polynomial 0x8C, LSB first                 *)
(***************************************************************************)
RECURSIVE crc8_shift(_, _)
crc8_shift(crc, k) ==
    IF k = 0 THEN crc
    ELSE crc8_shift(IF crc % 2 = 1 THEN Xor8(crc \div 2, 140) ELSE crc \div 2,
                    k - 1)

\* the effect of the inner loop (8 shifts) on every value of crc ^ byte
Crc8Step == [c \in 0..255 |-> crc8_shift(c, 8)]

RECURSIVE crc8_from(_, _, _)
crc8_from(crc, data, i) ==
    IF i > Len(data) THEN crc
    ELSE crc8_from(Crc8Step[Xor8(crc, data[i])], data, i + 1)

calc_crc8(data) == crc8_from(0, data, 1)

verify_crc8(data, crc) == calc_crc8(data) = crc

(***************************************************************************)
(* ROM codes of the devices that can be attached to the 1-Wire bus         *)
(***************************************************************************)
RomOf(body) == body \o <<calc_crc8(body)>>

RomA == RomOf(<<40, 1, 0, 0, 0, 0, 0>>)
RomB == RomOf(<<40, 2, 0, 0, 0, 0, 0>>)
RomC == RomOf(<<40, 1, 0, 0, 0, 0, 128>>)
RomD == RomOf(<<38, 1, 0, 0, 0, 0, 0>>)
RomE == RomOf(<<58, 1, 0, 0, 0, 0, 0>>)

\* RomA with its last bit (bit 64) flipped: the CRC byte no longer matches
RomBad == [RomA EXCEPT ![8] = Xor8(RomA[8], 128)]

RomPool == {RomA, RomB, RomC, RomD, RomBad}

CrcValid(rom) == calc_crc8(SubSeq(rom, 1, 7)) = rom[8]

\* bit n (1..64) of a ROM code, in transmission order
RomBit(rom, n) == BitOf(rom[((n - 1) \div 8) + 1], (n - 1) % 8)

\* device_id = "".join(f"{x:02x}" for x in rom_no): 16 hex digits
Hex2(x) == <<x \div 16, x % 16>>

HexId(rom) == Hex2(rom[1]) \o Hex2(rom[2]) \o Hex2(rom[3]) \o Hex2(rom[4])
              \o Hex2(rom[5]) \o Hex2(rom[6]) \o Hex2(rom[7]) \o Hex2(rom[8])

get_device_type(family_code) ==
    CASE family_code = 25 -> "DS28E17"
      [] family_code = 40 -> "DS18XB20"
      [] family_code = 38 -> "DS2438"
      [] family_code = 58 -> "DS2413"
      [] OTHER -> "Unknown"

DeviceEntry(rom) ==
    [family_code |-> rom[1], device_type |-> get_device_type(rom[1]), rom |-> rom]

NoDevices == [id \in {} |-> DeviceEntry(RomA)]

\* dict assignment d[k] = v
Put(d, k, v) == [x \in (DOMAIN d) \cup {k} |-> IF x = k THEN v ELSE d[x]]

\* del d[k]
Del(d, k) == [x \in (DOMAIN d) \ {k} |-> d[x]]

(***************************************************************************)
(* Program constants                                                       *)
(***************************************************************************)
MAX_FAILURES == 3
TIMEOUT_DURATION == 300 * 1000
SCAN_CACHE_TIME == 60 * 1000

(***************************************************************************)
(* Bounds                                                                  *)
(***************************************************************************)
MaxBusDevices == 3
MaxNow == 900000
MaxRescans == 1
MaxTicks == 2
MaxCycles == 2
MaxFaults == 1
MaxPcfTicks == 2
MaxDmTicks == 2
MaxPasses == 4
MaxLedCalls == 2
MaxLoops == 2
MaxRounds == 2

\* commands counted for OneWireBus() (DS2482.reset, wire_reset, search) and
\* for scan_devices(True) (wire_reset, search)
ConstructCmds == 3
ScanCmds == 2

Populations == {s \in SUBSET RomPool : Cardinality(s) <= MaxBusDevices}

\* the populations and the device addressed in the select_device runs
SelPopulations == {{RomA}, {RomB}}
SelTarget == HexId(RomA)
SelTicks == {299 * 1000, 300 * 1000}

NoCall == [dev |-> <<>>]
NoEntry == [failures |-> 0]

VARIABLES
    now,              \* time.time(), in ms
    busDevices,       \* ROM codes physically present on the 1-Wire bus
    participating,    \* devices still answering in the current search pass
    devices,          \* OneWireBus.devices (the registry)
    last_scan_time,   \* OneWireBus.last_scan_time
    timeout_cache,    \* OneWireBus._timeout_cache: id -> (timestamp, failures)
    scanPc,           \* position inside _scan_bus
    scanCaller,       \* who runs _scan_bus: "init", "scan_devices", "select"
    scanFound,        \* local dict `devices` of _scan_bus
    rom_no,           \* local bytearray(8)
    last_discrepancy,
    last_zero,
    id_bit_number,
    scanPasses,       \* number of completed 64-bit walks of the current scan
    prevRom,          \* history: rom_no at the end of the walk before this one
    selDev,           \* device_id of the select_device call waiting for its rescan
    selLog,           \* the select_device call that has just returned
    recFailures,      \* history: failures recorded so far for SelTarget (capped)
    recLast,          \* history: time of the last recorded failure of SelTarget
    sock,             \* SMBus._sock: "none" or "open"
    io_lock,          \* SMBus._io_lock: "free" or the thread that holds it
    tpc,              \* per thread: position inside _send_command
    attempt,          \* per thread: loop variable of _send_command
    rx,               \* per thread: frame read by _receive_frame in this attempt
    tres,             \* per thread: outcome of its last _send_command
    slept,            \* per thread: ms spent in time.sleep by its _send_command
    lock,             \* CasaITApi.lock: "none" or the task that holds it
    lockWaiters,      \* tasks waiting for CasaITApi.lock, first come first
    apc,              \* per task: position inside its coroutine
    job,              \* per task: the executor job it awaits
    probeIdx,         \* per scan: index of the address being probed
    found_by_code,    \* per scan: addresses that acknowledged the probe
    scanOwPass,       \* per scan: first or second scan_onewire of the service
    im117_om117,      \* CasaITApi.im117_om117 (addresses registered)
    dm117,            \* CasaITApi.dm117
    sm117,            \* CasaITApi.sm117
    ow_devices,       \* CasaITApi.ow_devices: bus addresses with known devices
    poll_task,        \* CasaITApi._poll_task is set
    init_done,        \* CasaITApi._init_done
    rescans,          \* completed runs of the scan_devices service
    poll_states,      \* per _poll_once: locals pcf_states and dm_states (addresses read)
    published,        \* CasaITApi._pcf_states and _dm117_states (addresses)
    ow_value,         \* the sensor entity has been given a value
    sstate,           \* SensorState.state / DS2438State.state of the device
    last_action,      \* SensorState.last_action
    reading,          \* SensorState.reading (the cached Reading)
    new_vdd,          \* DS2438State.new_vdd
    new_vad,
    new_vse,
    new_temp,
    cycle,            \* number of the conversion (or port access) last begun on the device
    ticks,            \* clock advances so far
    custom_cache,     \* OneWireBus._interval_cache[device_id]
    pollLog,          \* the sensor call that has just returned
    expiredSeen,      \* history: a poll has already found the Reading expired
    faults,           \* bus faults injected so far
    pcf_last_value,   \* PCF8574.last_value
    pcf_port_states,  \* PCF8574.port_states
    pcf_new_value,    \* PCF8574._new_value
    pcf_new_value_time, \* PCF8574._new_value_time, in ms
    pcf_init_counter, \* PCF8574._init_counter
    pcf_latch,        \* the output latch of the expander: the byte written last
    runValue,         \* history: the byte returned by the last read of read_ports
    runSince,         \* history: when the unbroken run of reads of runValue began
    pcfLog,           \* the PCF8574 call that has just returned
    dm_last_values,   \* DM117.last_values
    dm_port_types,    \* DM117.port_types
    dm_last_read_time, \* DM117._last_read_time, in ms
    dm_init_counter,  \* DM117._init_counter
    dm_bus_time,      \* history: when read_ports last sent CMD_READ, in ms
    dmLog,            \* the DM117 call that has just returned
    blind,            \* CasaITBlindCover: its attributes, its outputs, the service
                      \* call in progress and the motion task
    motionLog,        \* how the motion task that ended last left the outputs
    config_cache,     \* LEDController._config_cache: id -> CachedConfig
    led_calls,        \* calls of the LED controller and the tunnel so far
    life,             \* CasaITApi: initialization task, poll loops, stop event
    ledLog            \* the DS28E17 / LEDController call that has just returned

scanLocals == <<participating, scanFound, rom_no, last_discrepancy, last_zero,
                id_bit_number, scanPasses, prevRom>>

scanVars == <<busDevices, devices, last_scan_time, scanPc, scanCaller, scanLocals>>

selVars == <<timeout_cache, selDev, selLog, recFailures, recLast>>

transportVars == <<sock, io_lock, tpc, attempt, rx, tres, slept>>

\* the life cycle of the initialization task and of the poll loops
lifeVars == <<life>>

apiVars == <<lock, lockWaiters, apc, job, probeIdx, found_by_code, scanOwPass,
             im117_om117, dm117, sm117, ow_devices, poll_task, init_done, rescans,
             poll_states, published, ow_value, lifeVars>>

sensorVars == <<sstate, last_action, reading, new_vdd, new_vad, new_vse, new_temp,
                cycle, ticks, custom_cache, pollLog, expiredSeen, faults>>

pcfVars == <<pcf_last_value, pcf_port_states, pcf_new_value, pcf_new_value_time,
             pcf_init_counter, pcf_latch, runValue, runSince, pcfLog>>

dmVars == <<dm_last_values, dm_port_types, dm_last_read_time, dm_init_counter,
            dm_bus_time, dmLog>>

coverVars == <<blind, motionLog>>

ledVars == <<config_cache, led_calls, ledLog>>

\* the drivers of the I2C modules and the entities on top of them
ioVars == <<pcfVars, dmVars, coverVars, ledVars>>

vars == <<now, scanVars, selVars, transportVars, apiVars, sensorVars, ioVars>>

\* what the 1-Wire bus operations leave alone
nonBusVars == <<transportVars, apiVars, sensorVars, ioVars>>

\* what the transport operations leave alone
nonTransportVars == <<now, scanVars, selVars, apiVars, sensorVars, ioVars>>

\* what the API tasks leave alone
nonApiVars == <<now, scanVars, selVars, transportVars, sensorVars, ioVars, lifeVars>>

\* what the sensor managers leave alone
nonSensorVars == <<transportVars, apiVars, ioVars>>

\* what the PCF8574 driver leaves alone
nonPcfVars == <<scanVars, selVars, transportVars, apiVars, dmVars, coverVars, ledVars>>

\* what the DM117 driver leaves alone
nonDmVars == <<scanVars, selVars, transportVars, apiVars, pcfVars, coverVars, ledVars>>

\* results handed to the entities
apiOut == <<poll_states, published, ow_value>>

ZeroRom == <<0, 0, 0, 0, 0, 0, 0, 0>>

ScanLocalsReset ==
    /\ scanFound' = NoDevices
    /\ rom_no' = ZeroRom
    /\ last_discrepancy' = 0
    /\ last_zero' = 0
    /\ id_bit_number' = 1
    /\ scanPasses' = 0
    /\ prevRom' = ZeroRom
    /\ participating' = {}

(***************************************************************************)
(* SMBus transport client (services/smbus_proxy.py)                        *)
(***************************************************************************)
Threads == {"t1", "t2"}

NoFrame == [len |-> 0 - 1]
NoResult == [kind |-> "none"]

\* SMBus.__init__: the constructor returns with an open connection
InitTransport ==
    /\ sock = "open"
    /\ io_lock = "free"
    /\ tpc = [t \in Threads |-> "idle"]
    /\ attempt = [t \in Threads |-> 0]
    /\ rx = [t \in Threads |-> NoFrame]
    /\ tres = [t \in Threads |-> NoResult]
    /\ slept = [t \in Threads |-> 0]

\* _async_initialize, the scan_devices service, _poll_loop, an entity write
\* followed by async_force_refresh, and a 1-Wire sensor read
Tasks == {"init", "svc", "poll", "write", "owread"}
Scanners == {"init", "svc"}

\* one address of the OM117, DM117 and SM117 ranges, in the order of
\* I2C_ADDR_RANGES
AddrOM == 32
AddrDM == 16
AddrSM == 24
ProbeOrder == <<AddrOM, AddrDM, AddrSM>>

NoJob == [op |-> "none", target |-> 0, issued |-> 0, total |-> 0]

\* executor jobs that drive the 1-Wire bus behind the bridge
OneWireOps == {"OneWireBus", "scan_devices", "read_temperature"}

\* CasaITApi.__init__
\* CasaITApi.__init__ (api.py:39-45): no snapshot, no stop event, no tasks, the
\* initialization event not set; nobody waits, nobody unloads
InitLife ==
    life = [init_task |-> "none", dm_config |-> FALSE, init_done |-> FALSE,
            stop_event |-> "none", poll_task |-> 0,
            loops |-> [i \in 1..MaxLoops |-> "none"],
            pcf_states |-> 0, rounds |-> 0,
            waiter |-> "idle", unload |-> "idle"]

InitApi ==
    /\ lock = "none"
    /\ lockWaiters = <<>>
    /\ apc = [t \in Tasks |-> "idle"]
    /\ job = [t \in Tasks |-> NoJob]
    /\ probeIdx = [t \in Scanners |-> 1]
    /\ found_by_code = [t \in Scanners |-> {}]
    /\ scanOwPass = [t \in Scanners |-> 1]
    /\ im117_om117 = {}
    /\ dm117 = {}
    /\ sm117 = {}
    /\ ow_devices = {}
    /\ poll_task = FALSE
    /\ init_done = FALSE
    /\ rescans = 0
    /\ poll_states = [t \in {"poll", "write"} |-> {}]
    /\ published = {}
    /\ ow_value = FALSE
    /\ InitLife

\* CACHE_TIMEOUT and CONVERSION_TIME of ds18b20.py, ds2438.py and ds2413.py, in ms
CACHE_TIMEOUT == [DS18XB20 |-> 60000, DS2438 |-> 60000, DS2413 |-> 25000]
CONVERSION_TIME == [DS18XB20 |-> 750, DS2438 |-> 50, DS2413 |-> 5]

\* waits for conversion_ready / read_ready in one conversion cycle
CycleWaits == [DS18XB20 |-> 1, DS2438 |-> 8, DS2413 |-> 1]

\* PIO states a DS2413 reports: (port_a, port_b)
PortSamples == {<<TRUE, FALSE>>, <<FALSE, TRUE>>}

None == 0 - 1
NoReading == [timestamp |-> None]
NoPoll == [op |-> "none"]

\* OneWireBus.get_interval: 0 stands for None
CustomCaches == {0, 30000}

\* SensorState() / DS2438State() of a device that has not been polled yet
InitSensors(customs) ==
    /\ sstate = "IDLE"
    /\ last_action = 0
    /\ reading = NoReading
    /\ new_vdd = None
    /\ new_vad = None
    /\ new_vse = None
    /\ new_temp = None
    /\ cycle = 0
    /\ ticks = 0
    /\ custom_cache \in customs
    /\ pollLog = NoPoll
    /\ expiredSeen = FALSE
    /\ faults = 0

\* pcf8574.py
MIN_INIT == 5
debounce_time == 40

NoPcfCall == [op |-> "none"]

\* PCF8574.__init__
InitPcf ==
    /\ pcf_last_value = None
    /\ pcf_port_states = <<0, 0, 0, 0, 0, 0, 0, 0>>
    /\ pcf_new_value = 0
    /\ pcf_new_value_time = 0
    /\ pcf_init_counter = 0
    /\ runValue = None
    /\ runSince = 0
    /\ pcfLog = NoPcfCall

NoDmCall == [op |-> "none"]

\* DM117.__init__
InitDm ==
    /\ dm_last_values = <<>>
    /\ dm_port_types = <<>>
    /\ dm_last_read_time = 0
    /\ dm_init_counter = 0
    /\ dm_bus_time = None
    /\ dmLog = NoDmCall

NoMotion == [op |-> "none"]

\* CasaITBlindCover.__init__; both relays are off
InitBlind ==
    /\ blind = [pc |-> "idle", op |-> "none", phase |-> "none",
                want |-> [t \in {"cover", "motion"} |-> [up |-> FALSE, down |-> FALSE]],
                movement_task |-> FALSE, position |-> 0, target |-> None,
                mpc |-> "none", why |-> "none", result |-> "none", cancel |-> FALSE,
                up |-> FALSE, down |-> FALSE]
    /\ motionLog = NoMotion

NoLedCall == [op |-> "none"]

\* LEDController.__init__ (led_controller.py:126-128)
InitLed ==
    /\ config_cache = [id \in {} |-> NoLedCall]
    /\ led_calls = 0
    /\ ledLog = NoLedCall

\* the drivers of the I2C modules and the entities after construction
\* the outputs of the expander when the driver is constructed
InitLatch(bytes) == pcf_latch \in bytes

InitIo == InitPcf /\ InitLatch({255}) /\ InitDm /\ InitBlind /\ InitLed

\* OneWireBus.__init__ up to the call of _scan_bus
InitBusOnly(pops) ==
    /\ now = 0
    /\ busDevices \in pops
    /\ participating = {}
    /\ devices = NoDevices
    /\ last_scan_time = 0
    /\ timeout_cache = [id \in {} |-> NoEntry]
    /\ scanPc = "new"
    /\ scanCaller = "init"
    /\ scanFound = NoDevices
    /\ rom_no = ZeroRom
    /\ last_discrepancy = 0
    /\ last_zero = 0
    /\ id_bit_number = 1
    /\ scanPasses = 0
    /\ prevRom = ZeroRom
    /\ selDev = <<>>
    /\ selLog = NoCall
    /\ recFailures = 0
    /\ recLast = 0

\* DS2482.wire_reset on a fault-free bridge: presence pulse iff a device is attached
wire_reset == busDevices # {}

\* wired-AND of what the participating devices send
id_bit_read == IF \E r \in participating : RomBit(r, id_bit_number) = 0 THEN 0 ELSE 1
cmp_id_bit_read == IF \E r \in participating : RomBit(r, id_bit_number) = 1 THEN 0 ELSE 1

\* a search that does not replay the branch taken before the last discrepancy
BranchDirectionNoReplay(n, ld, rom) ==
    IF n = ld THEN 1 ELSE 0

\* the direction chosen when id_bit = cmp_id_bit = 0 (lines 122-127)
BranchDirection(n, ld, rom) ==
    IF n = ld THEN 1
    ELSE IF n > ld THEN 0
    ELSE BitOf(rom[((n - 1) \div 8) + 1], (n - 1) % 8)

search_direction ==
    IF id_bit_read # cmp_id_bit_read THEN id_bit_read
    ELSE BranchDirection(id_bit_number, last_discrepancy, rom_no)

\* what the caller of _scan_bus does when it returns:
\* scan_devices stores the time of the call (line 82)
ScanReturns ==
    last_scan_time' = IF scanCaller = "scan_devices" THEN now ELSE last_scan_time

\* _scan_bus lines 87-94: initial reset; no presence pulse returns {} and
\* leaves self.devices as it was
ScanBegin(caller) ==
    /\ ScanLocalsReset
    /\ scanCaller' = caller
    /\ IF wire_reset
       THEN scanPc' = "pass" /\ UNCHANGED last_scan_time
       ELSE scanPc' = "aborted"
            /\ last_scan_time' = IF caller = "scan_devices" THEN now ELSE last_scan_time
    /\ UNCHANGED <<busDevices, devices>>

\* OneWireBus.__init__ line 71
Construct ==
    /\ scanPc = "new"
    /\ ScanBegin("init")
    /\ UNCHANGED <<now, selVars, nonBusVars>>

\* OneWireBus.scan_devices (lines 73-83)
scan_devices(force) ==
    /\ scanPc \in {"idle", "done", "aborted"}
    /\ selDev = <<>>
    /\ force \/ (now - last_scan_time) >= SCAN_CACHE_TIME
    /\ ScanBegin("scan_devices")
    /\ selLog' = NoCall
    /\ UNCHANGED <<now, timeout_cache, selDev, recFailures, recLast, nonBusVars>>

ScanDevicesForced == scan_devices(TRUE)

\* lines 96-102: reset, search command, start of a 64-bit walk
ScanPassBegin ==
    /\ scanPc = "pass"
    /\ participating' = busDevices
    /\ last_zero' = 0
    /\ id_bit_number' = 1
    /\ scanPc' = "bit"
    /\ UNCHANGED <<now, busDevices, devices, last_scan_time, scanCaller, scanFound,
                   rom_no, last_discrepancy, scanPasses, prevRom, selVars, nonBusVars>>

\* lines 105-143: one bit of the walk
ScanBit ==
    /\ scanPc = "bit"
    /\ id_bit_number <= 64
    /\ IF id_bit_read = 1 /\ cmp_id_bit_read = 1
       THEN \* no device answered: `return devices`, registry not replaced
            /\ scanPc' = "aborted"
            /\ ScanReturns
            /\ UNCHANGED scanLocals
       ELSE LET dir == search_direction
                byte_index == ((id_bit_number - 1) \div 8) + 1
                k == (id_bit_number - 1) % 8
            IN  /\ last_zero' = IF id_bit_read = cmp_id_bit_read /\ dir = 0
                                THEN id_bit_number ELSE last_zero
                /\ rom_no' = [rom_no EXCEPT ![byte_index] =
                                 IF dir = 1 THEN SetBit(@, k) ELSE ClearBit(@, k)]
                /\ participating' = {r \in participating : RomBit(r, id_bit_number) = dir}
                /\ id_bit_number' = id_bit_number + 1
                /\ scanPc' = IF id_bit_number + 1 > 64 THEN "passEnd" ELSE "bit"
                /\ UNCHANGED <<last_scan_time, scanFound, last_discrepancy, scanPasses,
                                prevRom>>
    /\ UNCHANGED <<now, busDevices, devices, scanCaller, selVars, nonBusVars>>

\* a search that registers every candidate
RomAcceptedUnchecked(rom) == TRUE

\* the CRC test of line 151
RomAccepted(rom) == calc_crc8(SubSeq(rom, 1, 7)) = rom[8]

\* lines 145-167: end of a walk
ScanPassEnd ==
    /\ scanPc = "passEnd"
    /\ LET found == IF RomAccepted(rom_no)
                    THEN Put(scanFound, HexId(rom_no), DeviceEntry(rom_no))
                    ELSE scanFound
       IN  /\ scanFound' = found
           /\ last_discrepancy' = last_zero
           /\ scanPasses' = scanPasses + 1
           /\ prevRom' = rom_no
           /\ IF last_zero = 0
              THEN /\ devices' = found
                   /\ scanPc' = "done"
                   /\ ScanReturns
              ELSE /\ devices' = devices
                   /\ scanPc' = "pass"
                   /\ UNCHANGED last_scan_time
    /\ UNCHANGED <<now, busDevices, scanCaller, participating, rom_no, last_zero,
                   id_bit_number, selVars, nonBusVars>>

ScanStep == ScanPassBegin \/ ScanBit \/ ScanPassEnd

\* the environment attaches or removes devices between two scans
BusChangeTo(pops) ==
    /\ scanPc \in {"done", "aborted"}
    /\ selDev = <<>>
    /\ \E pop \in pops : pop # busDevices /\ busDevices' = pop
    /\ scanPc' = "idle"
    /\ ScanLocalsReset
    /\ selLog' = NoCall
    /\ UNCHANGED <<now, devices, last_scan_time, scanCaller, timeout_cache, selDev,
                   recFailures, recLast, nonBusVars>>

BusChange == BusChangeTo(Populations)

InitScan ==
    InitBusOnly(Populations) /\ InitTransport /\ InitApi /\ InitSensors({0}) /\ InitIo

NextScan == Construct \/ ScanDevicesForced \/ ScanStep \/ BusChange

SpecScan == InitScan /\ [][NextScan]_vars

Spec == SpecScan

(***************************************************************************)
(* _scan_bus on a bus whose answers are not consistent from one walk to    *)
(* the next                                                                *)
(***************************************************************************)
\* RomB shares bit 2 = 0 with RomA (RomD has 1 there) and has bit 9 = 0
\* where RomA has 1
FlapPopulations == {{RomA, RomB}, {RomB, RomD}}

\* the devices that answer change between two walks of one scan (contact
\* bounce, a device browning out); capped by the number of walks
BusFlap ==
    /\ scanPc = "pass"
    /\ scanPasses >= 1
    /\ scanPasses < MaxPasses
    /\ \E pop \in FlapPopulations : pop # busDevices /\ busDevices' = pop
    /\ UNCHANGED <<now, devices, last_scan_time, scanPc, scanCaller, scanLocals,
                   selVars, nonBusVars>>

\* lines 107-111: wire_single_bit returns None, `return devices`
ScanReadError ==
    /\ scanPc = "bit"
    /\ id_bit_number <= 64
    /\ scanPc' = "aborted"
    /\ ScanReturns
    /\ UNCHANGED <<now, busDevices, devices, scanCaller, scanLocals, selVars, nonBusVars>>

\* the order in which the search visits ROM codes: bit 1 is the most
\* significant, a 0 branch comes before the 1 branch
RomLess(a, b) ==
    \E n \in 1..64 :
        /\ RomBit(a, n) < RomBit(b, n)
        /\ \A m \in 1..(n - 1) : RomBit(a, m) = RomBit(b, m)

InitFlap ==
    InitBusOnly(FlapPopulations) /\ InitTransport /\ InitApi /\ InitSensors({0}) /\ InitIo

NextFlap == Construct \/ ScanDevicesForced \/ ScanStep \/ BusFlap \/ ScanReadError

SpecFlap == InitFlap /\ [][NextFlap]_vars

(***************************************************************************)
(* OneWireBus.select_device (lines 207-245)                                *)
(***************************************************************************)
HasEntry(cache, d) == d \in DOMAIN cache

\* line 224 without the age test: a device with MAX_FAILURES failures is
\* refused for ever
RefusedForEver(entry, t) ==
    entry.failures >= MAX_FAILURES

\* line 224
Refused(entry, t) ==
    entry.failures >= MAX_FAILURES /\ t - entry.timestamp < TIMEOUT_DURATION

\* line 227
Expired(entry, t) == t - entry.timestamp >= TIMEOUT_DURATION

\* _increment_failures (lines 243-245)
increment_failures(cache, d, t) ==
    LET count == IF HasEntry(cache, d) THEN cache[d].failures ELSE 0
    IN  Put(cache, d, [timestamp |-> t, failures |-> count + 1])

\* lines 220-241 for a device of the registry: the new timeout cache and the
\* value returned.  resetOk is the result of bridge.wire_reset(); wfail is the
\* 1-Wire write that fails: 0 none, 1 the match-ROM command, 2..9 a ROM byte
SelectOutcome(cache, d, t, resetOk, wfail) ==
    LET refused == HasEntry(cache, d) /\ Refused(cache[d], t)
        purged  == IF HasEntry(cache, d) /\ Expired(cache[d], t)
                   THEN Del(cache, d) ELSE cache
    IN  IF refused THEN [cache |-> cache, ret |-> FALSE]
        ELSE IF ~resetOk THEN [cache |-> increment_failures(purged, d, t), ret |-> FALSE]
        ELSE IF wfail \in 2..9 THEN [cache |-> increment_failures(purged, d, t), ret |-> FALSE]
        ELSE [cache |-> purged, ret |-> TRUE]

WriteFaults == {0, 1, 2, 9}

\* the part of select_device after the registry lookup
SelectFinish(d, resetOk, wfail) ==
    LET known == d \in DOMAIN devices
        out == IF known THEN SelectOutcome(timeout_cache, d, now, resetOk, wfail)
               ELSE [cache |-> timeout_cache, ret |-> FALSE]
        recorded == out.cache # timeout_cache /\ HasEntry(out.cache, d)
                    /\ out.cache[d].timestamp = now /\ ~out.ret
    IN  /\ timeout_cache' = out.cache
        /\ selLog' = [dev |-> d, at |-> now, known |-> known,
                      entry |-> IF HasEntry(timeout_cache, d) THEN timeout_cache[d]
                                ELSE NoEntry,
                      reset |-> resetOk, wfail |-> wfail, ret |-> out.ret,
                      seen |-> recFailures, last |-> recLast]
        /\ recFailures' = IF recorded /\ recFailures < MAX_FAILURES
                          THEN recFailures + 1 ELSE recFailures
        /\ recLast' = IF recorded THEN now ELSE recLast
        /\ selDev' = <<>>

\* select_device(device_id) for a device the registry knows
SelectKnown(d) ==
    /\ scanPc \in {"idle", "done", "aborted"}
    /\ selDev = <<>>
    /\ d \in DOMAIN devices
    /\ \E resetOk \in BOOLEAN, wfail \in WriteFaults :
          /\ resetOk => busDevices # {}
          /\ SelectFinish(d, resetOk, wfail)
    /\ UNCHANGED <<now, scanVars, nonBusVars>>

\* select_device(device_id) for an unknown device: lines 213-215, rescan first
SelectUnknown(d) ==
    /\ scanPc \in {"idle", "done", "aborted"}
    /\ selDev = <<>>
    /\ d \notin DOMAIN devices
    /\ ScanBegin("select")
    /\ selDev' = d
    /\ selLog' = NoCall
    /\ UNCHANGED <<now, timeout_cache, recFailures, recLast, nonBusVars>>

\* lines 216-241 once the rescan has returned
SelectResume ==
    /\ selDev # <<>>
    /\ scanPc \in {"done", "aborted"}
    /\ \E resetOk \in BOOLEAN, wfail \in WriteFaults :
          /\ resetOk => busDevices # {}
          /\ SelectFinish(selDev, resetOk, wfail)
    /\ UNCHANGED <<now, scanVars, nonBusVars>>

select_device == SelectKnown(SelTarget) \/ SelectUnknown(SelTarget)

\* time passes between two calls
Tick ==
    /\ scanPc \in {"idle", "done", "aborted"}
    /\ \E dt \in SelTicks : now + dt <= MaxNow /\ now' = now + dt
    /\ selLog' = NoCall
    /\ UNCHANGED <<scanVars, timeout_cache, selDev, recFailures, recLast, nonBusVars>>

BusChangeSel == BusChangeTo(SelPopulations)

InitSelect ==
    InitBusOnly(SelPopulations) /\ InitTransport /\ InitApi /\ InitSensors({0}) /\ InitIo

NextSelect ==
    \/ Construct
    \/ ScanStep
    \/ ScanDevicesForced
    \/ select_device
    \/ SelectResume
    \/ Tick
    \/ BusChangeSel

SpecSelect == InitSelect /\ [][NextSelect]_vars

(***************************************************************************)
(* SMBus._send_command, _receive_frame, close (smbus_proxy.py)             *)
(***************************************************************************)
\* SMBus._calc_crc8: polynomial 0x07, MSB first (lines 133-138)
RECURSIVE smbus_crc8_shift(_, _)
smbus_crc8_shift(crc, k) ==
    IF k = 0 THEN crc
    ELSE smbus_crc8_shift(IF crc >= 128 THEN Xor8((crc * 2) % 256, 7)
                                        ELSE (crc * 2) % 256,
                          k - 1)

SmbusCrc8Step == [c \in 0..255 |-> smbus_crc8_shift(c, 8)]

RECURSIVE smbus_crc8_from(_, _, _)
smbus_crc8_from(crc, data, i) ==
    IF i > Len(data) THEN crc
    ELSE smbus_crc8_from(SmbusCrc8Step[Xor8(crc, data[i])], data, i + 1)

smbus_calc_crc8(data) == smbus_crc8_from(0, data, 1)

\* a frame as the bridge builds it: [len][payload][crc8]
FrameOf(payload) ==
    [len |-> Len(payload), payload |-> payload,
     crc |-> smbus_calc_crc8(<<Len(payload)>> \o payload)]

\* payloads the bridge answers with: status only, status and a byte,
\* an error status, the maintenance marker
BridgePayloads == {<<0>>, <<0, 5>>, <<1>>, <<255, 238, 1>>}

\* a frame with bit 0 of its last payload byte flipped on the way
FlipPayload(f) ==
    [f EXCEPT !.payload = [f.payload EXCEPT ![f.len] = Xor8(f.payload[f.len], 1)]]

\* a frame with bit 0 of its CRC byte flipped on the way
FlipCrc(f) == [f EXCEPT !.crc = Xor8(f.crc, 1)]

Frames ==
    {FrameOf(p) : p \in BridgePayloads}
    \cup {FlipPayload(FrameOf(p)) : p \in BridgePayloads}
    \cup {FlipCrc(FrameOf(p)) : p \in BridgePayloads}

CrcMatches(f) == f.crc = smbus_calc_crc8(<<f.len>> \o f.payload)

\* a _receive_frame that hands the payload over without comparing the CRC
receive_frame_unchecked(f) == [ok |-> TRUE, payload |-> f.payload]

\* _receive_frame (lines 157-169): the payload, or SMBusProxyError
receive_frame(f) ==
    IF f.crc # smbus_calc_crc8(<<f.len>> \o f.payload)
    THEN [ok |-> FALSE, payload |-> <<>>]
    ELSE [ok |-> TRUE, payload |-> f.payload]

\* a marker test that looks at the first two bytes only
IsMaintenanceShort(response) ==
    Len(response) >= 3 /\ SubSeq(response, 1, 2) = <<255, 255>>

\* line 194
IsMaintenance(response) ==
    Len(response) >= 3 /\ SubSeq(response, 1, 3) = <<255, 238, 1>>

\* `with self._io_lock:` and the first iteration of the loop (lines 174-175)
SendCommandEnter(t) ==
    /\ tpc[t] = "idle"
    /\ io_lock = "free"
    /\ io_lock' = t
    /\ tpc' = [tpc EXCEPT ![t] = "loop"]
    /\ attempt' = [attempt EXCEPT ![t] = 0]
    /\ rx' = [rx EXCEPT ![t] = NoFrame]
    /\ tres' = [tres EXCEPT ![t] = NoResult]
    /\ slept' = [slept EXCEPT ![t] = 0]
    /\ UNCHANGED <<sock, nonTransportVars>>

\* the exception leaves _send_command: the lock is released
Raise(t) ==
    /\ tpc' = [tpc EXCEPT ![t] = "idle"]
    /\ io_lock' = "free"
    /\ tres' = [tres EXCEPT ![t] = [kind |-> "error", attempts |-> attempt[t] + 1]]
    /\ UNCHANGED attempt

\* the except clauses (lines 198-232): _reset_socket, then time.sleep(1.0)
\* and retry, or raise; `before` is the time already slept inside the try
AttemptFailedAfter(t, before) ==
    /\ sock' = "none"
    /\ IF attempt[t] < 2
       THEN /\ attempt' = [attempt EXCEPT ![t] = attempt[t] + 1]
            /\ tpc' = [tpc EXCEPT ![t] = "loop"]
            /\ slept' = [slept EXCEPT ![t] = @ + before + 1000]
            /\ UNCHANGED <<io_lock, tres>>
       ELSE /\ slept' = [slept EXCEPT ![t] = @ + before]
            /\ Raise(t)

AttemptFailed(t) == AttemptFailedAfter(t, 0)

\* lines 194-197: _reset_socket, time.sleep(2), raise SMBusProxyError, which
\* the except clause of line 207 catches
MaintenanceSeen(t) == AttemptFailedAfter(t, 2000)

\* _ensure_connected (line 176, outside the try block) and _connect
EnsureConnected(t) ==
    /\ tpc[t] = "loop"
    /\ UNCHANGED nonTransportVars
    /\ rx' = [rx EXCEPT ![t] = NoFrame]
    /\ UNCHANGED slept
    /\ IF sock = "open"
       THEN /\ tpc' = [tpc EXCEPT ![t] = "try"]
            /\ UNCHANGED <<sock, io_lock, attempt, tres>>
       ELSE \E connected \in BOOLEAN :
              IF connected
              THEN /\ sock' = "open"
                   /\ tpc' = [tpc EXCEPT ![t] = "try"]
                   /\ UNCHANGED <<io_lock, attempt, tres>>
              ELSE \* _connect raises SMBusProxyError (line 119)
                   /\ sock' = "none"
                   /\ Raise(t)

\* lines 179-190: the socket check, the send spacing and sendall
SendFrame(t) ==
    /\ tpc[t] = "try"
    /\ UNCHANGED <<rx, nonTransportVars>>
    /\ IF sock = "none"
       THEN AttemptFailed(t)
       ELSE \E outcome \in {"sent", "timeout", "oserror"} :
              IF outcome = "sent"
              THEN /\ tpc' = [tpc EXCEPT ![t] = "sent"]
                   /\ UNCHANGED <<sock, io_lock, attempt, tres, slept>>
              ELSE AttemptFailed(t)

\* lines 191-197 and 233-234: the response
ReceiveResponse(t) ==
    /\ tpc[t] = "sent"
    /\ UNCHANGED nonTransportVars
    /\ IF sock = "none"
       THEN /\ AttemptFailed(t)
            /\ UNCHANGED rx
       ELSE \/ \* timeout, connection closed by the peer, socket error
               /\ AttemptFailed(t)
               /\ UNCHANGED rx
            \/ \E f \in Frames :
                 LET r == receive_frame(f)
                 IN  /\ rx' = [rx EXCEPT ![t] = f]
                     /\ IF ~r.ok
                        THEN AttemptFailed(t)
                        ELSE IF IsMaintenance(r.payload)
                        THEN MaintenanceSeen(t)
                        ELSE /\ tres' = [tres EXCEPT ![t] =
                                           [kind |-> "ok", payload |-> r.payload,
                                            attempts |-> attempt[t] + 1]]
                             /\ tpc' = [tpc EXCEPT ![t] = "idle"]
                             /\ io_lock' = "free"
                             /\ UNCHANGED <<sock, attempt, slept>>

\* SMBus.close (lines 245-251): no lock is taken
close(t) ==
    /\ tpc[t] = "idle"
    /\ sock = "open"
    /\ sock' = "none"
    /\ UNCHANGED <<io_lock, tpc, attempt, rx, tres, slept, nonTransportVars>>

NextTransport ==
    \E t \in Threads :
        \/ SendCommandEnter(t)
        \/ EnsureConnected(t)
        \/ SendFrame(t)
        \/ ReceiveResponse(t)
        \/ close(t)

InitTransportOnly ==
    InitBusOnly({{RomA}}) /\ InitTransport /\ InitApi /\ InitSensors({0}) /\ InitIo

SpecTransport == InitTransportOnly /\ [][NextTransport]_vars

(***************************************************************************)
(* CasaITApi (api.py): the API lock and the jobs handed to the executor    *)
(***************************************************************************)
\* asyncio.Lock.acquire: taken at once when free and nobody waits, else FIFO
Acquire(t) ==
    IF lock = "none" /\ lockWaiters = <<>>
    THEN lock' = t /\ UNCHANGED lockWaiters
    ELSE lockWaiters' = Append(lockWaiters, t) /\ UNCHANGED lock

\* asyncio.Lock.release: the first waiter is woken and owns the lock next
Release ==
    IF lockWaiters = <<>>
    THEN lock' = "none" /\ UNCHANGED lockWaiters
    ELSE lock' = Head(lockWaiters) /\ lockWaiters' = Tail(lockWaiters)

\* hass.async_add_executor_job(op): a job of `total` bus commands
Submit(t, op, target, total) ==
    job' = [job EXCEPT ![t] = [op |-> op, target |-> target,
                               issued |-> 0, total |-> total]]

JobOver(t) == job[t].issued = job[t].total

NoJobNow(t) == job' = [job EXCEPT ![t] = NoJob]

\* the executor thread of task t sends its next command over the shared bus
IssueCmd(t) ==
    /\ job[t].issued < job[t].total
    /\ job' = [job EXCEPT ![t].issued = @ + 1]
    /\ UNCHANGED <<lock, lockWaiters, apc, probeIdx, found_by_code, scanOwPass,
                   im117_om117, dm117, sm117, ow_devices, poll_task, init_done,
                   rescans, apiOut, nonApiVars>>

\* scan_devices, first write_quick probe; the lock is not taken
ScanDevicesEnter(t) ==
    /\ apc[t] = "idle"
    /\ t = "svc" => rescans < MaxRescans
    /\ apc' = [apc EXCEPT ![t] = "probe"]
    /\ probeIdx' = [probeIdx EXCEPT ![t] = 1]
    /\ found_by_code' = [found_by_code EXCEPT ![t] = {}]
    /\ scanOwPass' = [scanOwPass EXCEPT ![t] = 1]
    /\ Submit(t, "write_quick", ProbeOrder[1], 1)
    /\ UNCHANGED <<lock, lockWaiters, im117_om117, dm117, sm117, ow_devices,
                   poll_task, init_done, rescans, apiOut, nonApiVars>>

\* a probe returns (ack) or raises SMBusProxyError/OSError; then the next address
ProbeDone(t) ==
    /\ apc[t] = "probe"
    /\ JobOver(t)
    /\ \E ack \in BOOLEAN :
          found_by_code' = [found_by_code EXCEPT ![t] =
                               IF ack THEN @ \cup {ProbeOrder[probeIdx[t]]} ELSE @]
    /\ IF probeIdx[t] < Len(ProbeOrder)
       THEN /\ probeIdx' = [probeIdx EXCEPT ![t] = @ + 1]
            /\ Submit(t, "write_quick", ProbeOrder[probeIdx[t] + 1], 1)
            /\ UNCHANGED apc
       ELSE /\ apc' = [apc EXCEPT ![t] = "refresh"]
            /\ NoJobNow(t)
            /\ probeIdx' = [probeIdx EXCEPT ![t] = 1]
    /\ UNCHANGED <<lock, lockWaiters, scanOwPass, im117_om117, dm117, sm117,
                   ow_devices, poll_task, init_done, rescans, apiOut, nonApiVars>>

\* _refresh_pcf8574, _refresh_dm117 and the start of _refresh_sm117: a bridge
\* that is found and not registered is constructed in the executor, unlocked
Refresh(t) ==
    /\ apc[t] = "refresh"
    /\ im117_om117' = found_by_code[t] \cap {AddrOM}
    /\ dm117' = found_by_code[t] \cap {AddrDM}
    /\ IF AddrSM \in found_by_code[t] /\ AddrSM \notin sm117
       THEN /\ Submit(t, "OneWireBus", AddrSM, ConstructCmds)
            /\ apc' = [apc EXCEPT ![t] = "construct"]
            /\ UNCHANGED <<sm117, found_by_code>>
       ELSE /\ sm117' = sm117 \cap found_by_code[t]
            /\ apc' = [apc EXCEPT ![t] = "scan_onewire"]
            /\ found_by_code' = [found_by_code EXCEPT ![t] = {}]
            /\ UNCHANGED job
    /\ UNCHANGED <<lock, lockWaiters, probeIdx, scanOwPass,
                   ow_devices, poll_task, init_done, rescans, apiOut, nonApiVars>>

\* _refresh_sm117 after the constructor has returned
ConstructDone(t) ==
    /\ apc[t] = "construct"
    /\ JobOver(t)
    /\ sm117' = (sm117 \cup {AddrSM}) \cap found_by_code[t]
    /\ apc' = [apc EXCEPT ![t] = "scan_onewire"]
    /\ NoJobNow(t)
    /\ found_by_code' = [found_by_code EXCEPT ![t] = {}]
    /\ UNCHANGED <<lock, lockWaiters, probeIdx, scanOwPass,
                   im117_om117, dm117, ow_devices, poll_task, init_done,
                   rescans, apiOut, nonApiVars>>

\* what follows scan_onewire: the service scans the 1-Wire buses a second
\* time, _async_initialize goes on to async_configure_dm117
AfterScanOnewire(t) ==
    IF t = "svc"
    THEN IF scanOwPass[t] = 1
         THEN /\ scanOwPass' = [scanOwPass EXCEPT ![t] = 2]
              /\ apc' = [apc EXCEPT ![t] = "scan_onewire"]
              /\ UNCHANGED rescans
         ELSE /\ apc' = [apc EXCEPT ![t] = "idle"]
              /\ rescans' = rescans + 1
              /\ scanOwPass' = [scanOwPass EXCEPT ![t] = 1]
    ELSE /\ apc' = [apc EXCEPT ![t] = "configure"]
         /\ UNCHANGED <<scanOwPass, rescans>>

\* scan_onewire without a registered bridge
ScanOnewireNoBridge(t) ==
    /\ apc[t] = "scan_onewire"
    /\ sm117 = {}
    /\ ow_devices' = {}
    /\ AfterScanOnewire(t)
    /\ UNCHANGED <<lock, lockWaiters, job, probeIdx, found_by_code,
                   im117_om117, dm117, sm117, poll_task, init_done, apiOut, nonApiVars>>

\* scan_onewire: async with self.lock
ScanOnewireEnter(t) ==
    /\ apc[t] = "scan_onewire"
    /\ sm117 # {}
    /\ Acquire(t)
    /\ apc' = [apc EXCEPT ![t] = "scan_wait"]
    /\ UNCHANGED <<job, probeIdx, found_by_code, scanOwPass, im117_om117, dm117,
                   sm117, ow_devices, poll_task, init_done, rescans, apiOut, nonApiVars>>

\* scan_onewire: ow_bus.scan_devices(True) in the executor, lock held
ScanOnewireJob(t) ==
    /\ apc[t] = "scan_wait"
    /\ lock = t
    /\ Submit(t, "scan_devices", AddrSM, ScanCmds)
    /\ apc' = [apc EXCEPT ![t] = "scan_job"]
    /\ UNCHANGED <<lock, lockWaiters, probeIdx, found_by_code, scanOwPass,
                   im117_om117, dm117, sm117, ow_devices, poll_task, init_done,
                   rescans, apiOut, nonApiVars>>

\* scan_onewire: the lock is released, ow_devices is replaced
ScanOnewireDone(t) ==
    /\ apc[t] = "scan_job"
    /\ JobOver(t)
    /\ Release
    /\ \E discovered \in SUBSET {AddrSM} : ow_devices' = discovered
    /\ NoJobNow(t)
    /\ AfterScanOnewire(t)
    /\ UNCHANGED <<probeIdx, found_by_code, im117_om117, dm117, sm117,
                   poll_task, init_done, apiOut, nonApiVars>>

\* async_configure_dm117: configure_ports (config + commit) in the executor;
\* the lock is not taken
ConfigureDm117 ==
    /\ apc["init"] = "configure"
    /\ AddrDM \in dm117
    /\ Submit("init", "configure_ports", AddrDM, 2)
    /\ apc' = [apc EXCEPT !["init"] = "configuring"]
    /\ UNCHANGED <<lock, lockWaiters, probeIdx, found_by_code, scanOwPass,
                   im117_om117, dm117, sm117, ow_devices, poll_task, init_done,
                   rescans, apiOut, nonApiVars>>

\* start_polling and _init_done.set(), with or without a DM117 configuration
StartPolling ==
    /\ \/ apc["init"] = "configure"
       \/ apc["init"] = "configuring" /\ JobOver("init")
    /\ apc' = [apc EXCEPT !["init"] = "done"]
    /\ NoJobNow("init")
    /\ poll_task' = TRUE
    /\ init_done' = TRUE
    /\ UNCHANGED <<lock, lockWaiters, probeIdx, found_by_code, scanOwPass,
                   im117_om117, dm117, sm117, ow_devices, rescans, apiOut, nonApiVars>>

\* _poll_once: async with self.lock (poll loop, or async_force_refresh)
PollOnceEnter(t) ==
    /\ \/ t = "poll" /\ apc[t] = "idle" /\ poll_task
       \/ t = "write" /\ apc[t] = "force_refresh"
    /\ Acquire(t)
    /\ apc' = [apc EXCEPT ![t] = "poll_wait"]
    /\ UNCHANGED <<job, probeIdx, found_by_code, scanOwPass, im117_om117, dm117,
                   sm117, ow_devices, poll_task, init_done, rescans, apiOut, nonApiVars>>

\* _poll_once: PCF8574.read_ports(set_high=False) of an output module
PollPcf(t) ==
    /\ apc[t] = "poll_wait"
    /\ lock = t
    /\ IF AddrOM \in im117_om117
       THEN Submit(t, "read_ports", AddrOM, 1)
       ELSE UNCHANGED job
    /\ apc' = [apc EXCEPT ![t] = "poll_pcf"]
    /\ UNCHANGED <<lock, lockWaiters, probeIdx, found_by_code, scanOwPass,
                   im117_om117, dm117, sm117, ow_devices, poll_task, init_done,
                   rescans, published, ow_value, nonApiVars>>
    /\ poll_states' = [poll_states EXCEPT ![t] = {}]

\* the entries a read adds to the locals pcf_states / dm_states: the value
\* read, or after a failed read the value published before, if there is one
Entry(addr, ok) == IF ok \/ addr \in published THEN {addr} ELSE {}

\* _poll_once: the read of the output module returns or raises, then
\* DM117.read_ports (CMD_READ, module count, CRC)
PollDm(t) ==
    /\ apc[t] = "poll_pcf"
    /\ JobOver(t)
    /\ \E ok \in BOOLEAN :
          poll_states' = [poll_states EXCEPT ![t] =
                             IF job[t].op = "read_ports" THEN Entry(AddrOM, ok) ELSE {}]
    /\ IF AddrDM \in dm117
       THEN Submit(t, "read_ports", AddrDM, 3)
       ELSE NoJobNow(t)
    /\ apc' = [apc EXCEPT ![t] = "poll_dm"]
    /\ UNCHANGED <<lock, lockWaiters, probeIdx, found_by_code, scanOwPass,
                   im117_om117, dm117, sm117, ow_devices, poll_task, init_done,
                   rescans, published, ow_value, nonApiVars>>

\* _poll_once: the read of the digital module returns a dict, returns None
\* or raises; the lock is released and the locals are published
PollOnceExit(t) ==
    /\ apc[t] = "poll_dm"
    /\ JobOver(t)
    /\ Release
    /\ NoJobNow(t)
    /\ apc' = [apc EXCEPT ![t] = "idle"]
    /\ UNCHANGED <<probeIdx, found_by_code, scanOwPass, im117_om117, dm117,
                   sm117, ow_devices, poll_task, init_done, rescans, ow_value, nonApiVars>>
    /\ \E ok \in BOOLEAN :
          published' = poll_states[t]
                         \cup (IF job[t].op = "read_ports" THEN Entry(AddrDM, ok) ELSE {})
    /\ poll_states' = [poll_states EXCEPT ![t] = {}]

\* switch._async_set_state: async with self._api.lock
WriteEnter ==
    /\ apc["write"] = "idle"
    /\ init_done
    /\ AddrOM \in im117_om117
    /\ Acquire("write")
    /\ apc' = [apc EXCEPT !["write"] = "write_wait"]
    /\ UNCHANGED <<job, probeIdx, found_by_code, scanOwPass, im117_om117, dm117,
                   sm117, ow_devices, poll_task, init_done, rescans, apiOut, nonApiVars>>

\* PCF8574.write_port (write + verification read) in the executor, lock held
WritePort ==
    /\ apc["write"] = "write_wait"
    /\ lock = "write"
    /\ Submit("write", "write_port", AddrOM, 2)
    /\ apc' = [apc EXCEPT !["write"] = "write_job"]
    /\ UNCHANGED <<lock, lockWaiters, probeIdx, found_by_code, scanOwPass,
                   im117_om117, dm117, sm117, ow_devices, poll_task, init_done,
                   rescans, apiOut, nonApiVars>>

\* the lock is released, async_force_refresh follows
WriteExit ==
    /\ apc["write"] = "write_job"
    /\ JobOver("write")
    /\ Release
    /\ NoJobNow("write")
    /\ apc' = [apc EXCEPT !["write"] = "force_refresh"]
    /\ UNCHANGED <<probeIdx, found_by_code, scanOwPass, im117_om117, dm117,
                   sm117, ow_devices, poll_task, init_done, rescans, apiOut, nonApiVars>>

\* read_ds18b20_temperature: _get_onewire_bus, then async with self.lock
OwReadEnter ==
    /\ apc["owread"] = "idle"
    /\ init_done
    /\ AddrSM \in ow_devices
    /\ AddrSM \in sm117
    /\ Acquire("owread")
    /\ apc' = [apc EXCEPT !["owread"] = "read_wait"]
    /\ UNCHANGED <<job, probeIdx, found_by_code, scanOwPass, im117_om117, dm117,
                   sm117, ow_devices, poll_task, init_done, rescans, apiOut, nonApiVars>>

\* bus.read_temperature in the executor: wire_reset, MATCH_ROM + ROM, command
OwReadJob ==
    /\ apc["owread"] = "read_wait"
    /\ lock = "owread"
    /\ Submit("owread", "read_temperature", AddrSM, 3)
    /\ apc' = [apc EXCEPT !["owread"] = "read_job"]
    /\ UNCHANGED <<lock, lockWaiters, probeIdx, found_by_code, scanOwPass,
                   im117_om117, dm117, sm117, ow_devices, poll_task, init_done,
                   rescans, apiOut, nonApiVars>>

OwReadExit ==
    /\ apc["owread"] = "read_job"
    /\ JobOver("owread")
    /\ Release
    /\ NoJobNow("owread")
    /\ apc' = [apc EXCEPT !["owread"] = "idle"]
    /\ UNCHANGED <<probeIdx, found_by_code, scanOwPass, im117_om117, dm117,
                   sm117, ow_devices, poll_task, init_done, rescans, poll_states, published, nonApiVars>>
    /\ ow_value' = TRUE

NextApi ==
    \/ \E t \in Tasks : IssueCmd(t)
    \/ \E t \in Scanners :
          \/ ScanDevicesEnter(t)
          \/ ProbeDone(t)
          \/ Refresh(t)
          \/ ConstructDone(t)
          \/ ScanOnewireNoBridge(t)
          \/ ScanOnewireEnter(t)
          \/ ScanOnewireJob(t)
          \/ ScanOnewireDone(t)
    \/ ConfigureDm117
    \/ StartPolling
    \/ \E t \in {"poll", "write"} :
          \/ PollOnceEnter(t)
          \/ PollPcf(t)
          \/ PollDm(t)
          \/ PollOnceExit(t)
    \/ WriteEnter
    \/ WritePort
    \/ WriteExit
    \/ OwReadEnter
    \/ OwReadJob
    \/ OwReadExit

InitApiOnly ==
    InitBusOnly({{RomA}}) /\ InitTransport /\ InitApi /\ InitSensors({0}) /\ InitIo

SpecApi == InitApiOnly /\ [][NextApi]_vars

(***************************************************************************)
(* 1-Wire sensors (ds18b20.py, ds2438.py, ds2413.py)                       *)
(***************************************************************************)
\* the device under test and its id in the registry
SensorId == CHOOSE id \in DOMAIN devices : TRUE

\* which manager serves the device (OneWireBus.read_temperature,
\* read_voltage, read_binary_state)
Family == devices[SensorId].device_type

\* custom_cache or CACHE_TIMEOUT
cache_time == IF custom_cache = 0 THEN CACHE_TIMEOUT[Family] ELSE custom_cache

HasReading == reading # NoReading

\* Reading.is_valid
is_valid(r, t) == t - r.timestamp < r.cache_time

\* a state machine that never waits for the conversion time
conversion_ready_at_once == TRUE

\* SensorState.conversion_ready / read_ready
conversion_ready == now - last_action >= CONVERSION_TIME[Family]

\* first test of get_temperature / get_reading / get_state without the
\* cached Reading: every poll runs the state machine
EarlyReturnNever == FALSE

\* first test of get_temperature / get_reading / get_state
EarlyReturn == HasReading /\ is_valid(reading, now) /\ sstate # "IDLE"

\* select_device as the sensor managers call it; a fault "select" is a failed
\* wire_reset
BusSelect(fault) == SelectOutcome(timeout_cache, SensorId, now, fault # "select", 0)

\* the value a poll hands back: <<>> is None
ValueOf(r, channel) ==
    IF r = NoReading THEN <<>>
    ELSE IF Family = "DS2413" THEN <<r.value[channel + 1]>>
    ELSE <<r.value>>

\* bookkeeping shared by the three polls: what the poll found, did and returned
PollDone(channel, fault, cmd) ==
    /\ pollLog' = [op |-> "poll", channel |-> channel, had |-> HasReading,
                   valid |-> HasReading /\ is_valid(reading, now),
                   before |-> reading, state |-> sstate, fault |-> fault,
                   cmd |-> cmd, first |-> ~expiredSeen,
                   ret |-> ValueOf(reading', channel)]
    /\ expiredSeen' = IF reading' # reading THEN FALSE
                      ELSE expiredSeen \/ (HasReading /\ ~is_valid(reading, now))
    /\ fault # "none" => faults < MaxFaults
    /\ faults' = IF fault = "none" THEN faults ELSE faults + 1

SensorKeeps == <<busDevices, devices, last_scan_time, scanPc, scanCaller, scanLocals,
                 selDev, selLog, recFailures, recLast, custom_cache, ticks,
                 nonSensorVars>>

\* DS18B20.get_temperature with _process_state, _start_conversion and
\* _read_temperature
get_temperature ==
    /\ Family = "DS18XB20"
    /\ \E fault \in {"none", "select", "io", "range"} :
       LET sel == BusSelect(fault)
           ok == sel.ret /\ fault = "none"
       IN  IF EarlyReturn \/ (sstate # "IDLE" /\ ~conversion_ready)
           THEN /\ fault = "none"
                /\ UNCHANGED <<sstate, last_action, reading, timeout_cache, cycle>>
                /\ PollDone(0, fault, "none")
           ELSE IF sstate = "IDLE"
           THEN /\ fault # "range"
                /\ cycle < MaxCycles
                /\ timeout_cache' = sel.cache
                /\ sstate' = IF ok THEN "CONVERTING" ELSE sstate
                /\ last_action' = IF ok THEN now ELSE last_action
                /\ cycle' = IF ok THEN cycle + 1 ELSE cycle
                /\ UNCHANGED reading
                /\ PollDone(0, fault, IF sel.ret THEN "CONVERT_T" ELSE "none")
           ELSE IF sstate = "CONVERTING"
           THEN /\ fault = "none"
                /\ sstate' = "READING"
                /\ UNCHANGED <<last_action, reading, timeout_cache, cycle>>
                /\ PollDone(0, fault, "none")
           ELSE /\ timeout_cache' = sel.cache
                /\ reading' = IF ok
                              THEN [value |-> cycle, timestamp |-> now,
                                    cache_time |-> cache_time]
                              ELSE reading
                /\ sstate' = IF ok THEN "IDLE" ELSE sstate
                /\ UNCHANGED <<last_action, cycle>>
                /\ PollDone(0, fault, IF sel.ret THEN "READ_SCRATCHPAD" ELSE "none")
    /\ UNCHANGED <<new_vdd, new_vad, new_vse, new_temp>>
    /\ UNCHANGED <<now, SensorKeeps>>

\* DS2438State.start_conversion
start_conversion ==
    /\ sstate' = "VDD_CONFIG"
    /\ last_action' = now
    /\ new_vdd' = None
    /\ new_vad' = None
    /\ new_vse' = None
    /\ new_temp' = None

\* the successor of each phase of DS2438._process_state
NextPhase ==
    [VDD_CONFIG |-> "VDD_CONVERT", VDD_CONVERT |-> "VDD_READ",
     VDD_READ |-> "VAD_CONFIG", VAD_CONFIG |-> "VAD_CONVERT",
     VAD_CONVERT |-> "VAD_READ", VAD_READ |-> "TEMP_CONVERT",
     TEMP_CONVERT |-> "TEMP_READ", TEMP_READ |-> "IDLE"]

\* the function command each phase sends after select_device
PhaseCmd ==
    [VDD_CONFIG |-> "WRITE_SCRATCHPAD", VDD_CONVERT |-> "CONVERT_VOLTAGE",
     VDD_READ |-> "RECALL_MEMORY", VAD_CONFIG |-> "WRITE_SCRATCHPAD",
     VAD_CONVERT |-> "CONVERT_VOLTAGE", VAD_READ |-> "RECALL_MEMORY",
     TEMP_CONVERT |-> "CONVERT_TEMP", TEMP_READ |-> "READ_SCRATCHPAD"]

\* what can go wrong in a phase: select_device refused or failed, a command
\* write or a scratchpad read (bytes, CRC) failed, the status bit (VDD_READ)
\* or the range (TEMP_READ) is wrong
PhaseFaults(phase) ==
    IF phase \in {"VDD_READ", "TEMP_READ"} THEN {"none", "select", "io", "range"}
    ELSE {"none", "select", "io"}

\* the faults a phase notices: _write_config does not look at the result of
\* its three wire_write_byte calls (lines 304-308)
Detected(phase, fault) ==
    /\ fault # "none"
    /\ ~(fault = "io" /\ phase \in {"VDD_CONFIG", "VAD_CONFIG"})

\* get_reading, lines 162-169, weakened: a Reading is built as soon as the
\* supply voltage has been read
CycleCompletePartial(st, vdd, vad, vse, temp) ==
    vdd # None

\* get_reading, lines 162-169
CycleComplete(st, vdd, vad, vse, temp) ==
    st = "IDLE" /\ vdd # None /\ vad # None /\ vse # None /\ temp # None

\* DS2438.get_reading with _process_state
get_reading ==
    /\ Family = "DS2438"
    /\ IF EarlyReturn \/ (sstate # "IDLE" /\ ~conversion_ready)
       THEN /\ UNCHANGED <<sstate, last_action, reading, timeout_cache, cycle,
                           new_vdd, new_vad, new_vse, new_temp>>
            /\ PollDone(0, "none", "none")
       ELSE IF sstate = "IDLE"
       THEN /\ start_conversion
            /\ cycle < MaxCycles
            /\ cycle' = cycle + 1
            /\ UNCHANGED <<reading, timeout_cache>>
            /\ PollDone(0, "none", "none")
       ELSE \E fault \in PhaseFaults(sstate) :
            LET sel == BusSelect(fault)
                ok == sel.ret /\ ~Detected(sstate, fault)
            IN  /\ timeout_cache' = sel.cache
                /\ sstate' = IF ok THEN NextPhase[sstate] ELSE "IDLE"
                /\ last_action' = IF ok THEN now ELSE last_action
                /\ new_vdd' = IF ok /\ sstate = "VDD_READ" THEN cycle ELSE new_vdd
                /\ new_vad' = IF ok /\ sstate = "VAD_READ" THEN cycle ELSE new_vad
                /\ new_vse' = IF ok /\ sstate = "VAD_READ" THEN cycle ELSE new_vse
                /\ new_temp' = IF ok /\ sstate = "TEMP_READ" THEN cycle ELSE new_temp
                /\ reading' = IF ok /\ CycleComplete(sstate', new_vdd', new_vad',
                                                     new_vse', new_temp')
                              THEN [value |-> [vdd |-> new_vdd', vad |-> new_vad',
                                               vse |-> new_vse',
                                               temperature |-> new_temp'],
                                    timestamp |-> now, cache_time |-> cache_time]
                              ELSE reading
                /\ UNCHANGED cycle
                /\ PollDone(0, fault, IF sel.ret THEN PhaseCmd[sstate] ELSE "none")
    /\ UNCHANGED <<now, SensorKeeps>>

\* DS2413.get_state with _process_state and _read_ports
get_state ==
    /\ Family = "DS2413"
    /\ \E channel \in {0, 1} :
       IF EarlyReturn \/ (sstate # "IDLE" /\ ~conversion_ready)
       THEN /\ UNCHANGED <<sstate, last_action, reading, timeout_cache, cycle>>
            /\ PollDone(channel, "none", "none")
       ELSE IF sstate = "IDLE"
       THEN /\ sstate' = "READING"
            /\ last_action' = now
            /\ cycle < MaxCycles
            /\ cycle' = cycle + 1
            /\ UNCHANGED <<reading, timeout_cache>>
            /\ PollDone(channel, "none", "none")
       ELSE \E fault \in {"none", "select", "io"} : \E states \in PortSamples :
            LET sel == BusSelect(fault)
                ok == sel.ret /\ fault = "none"
            IN  /\ timeout_cache' = sel.cache
                /\ reading' = IF ok
                              THEN [value |-> states, timestamp |-> now,
                                    cache_time |-> cache_time]
                              ELSE reading
                /\ sstate' = IF ok THEN "IDLE" ELSE sstate
                /\ UNCHANGED <<last_action, cycle>>
                /\ PollDone(channel, fault, IF sel.ret THEN "PIO_ACCESS_READ" ELSE "none")
    /\ UNCHANGED <<new_vdd, new_vad, new_vse, new_temp>>
    /\ UNCHANGED <<now, SensorKeeps>>

\* DS2413.set_state, lines 196-200: the byte written for the new port values
state_byte(new_a, new_b) ==
    (IF ~new_a THEN 1 ELSE 0) + (IF ~new_b THEN 4 ELSE 0)

\* line 202
expected_state(new_a, new_b) ==
    <<BitOf(state_byte(new_a, new_b), 0) = 1, BitOf(state_byte(new_a, new_b), 2) = 1>>

\* one pass of the loop of lines 204-233 as the device answers it: "ack" is
\* the confirmation byte 0xAA; otherwise the verification read returns the
\* expected state ("verified"), another state ("differs") or None ("none")
PassOutcomes == {"ack", "verified", "differs", "none"}

\* the confirmation byte was 0xAA
Confirmed(p) == p = "ack"

\* what the verification _read_ports hands back: <<>> is None
Reread(p, expected) ==
    IF p = "verified" THEN expected
    ELSE IF p = "differs" THEN <<~expected[1], expected[2]>>
    ELSE <<>>

\* the loop of lines 204-233.  sel1 is the result of the select_device of the
\* second pass, c0 and c1 tell whether the confirmation byte was 0xAA, v0 and
\* v1 are the results of the verification reads.  A confirmed first pass is
\* followed by the second pass (there is no break), and the loop that runs
\* out is followed by `return True`
WriteLoop(expected, sel1, c0, v0, c1, v1) ==
    IF ~c0 /\ v0 = expected
    THEN [ret |-> TRUE, cached |-> TRUE, acked |-> {}, verified |-> {0}, passes |-> 1]
    ELSE LET first == IF c0 THEN {0} ELSE {}
         IN  IF ~sel1
             THEN [ret |-> FALSE, cached |-> c0, acked |-> first, verified |-> {},
                   passes |-> 1]
             ELSE IF c1
             THEN [ret |-> TRUE, cached |-> TRUE, acked |-> first \cup {1},
                   verified |-> {}, passes |-> 2]
             ELSE IF v1 = expected
             THEN [ret |-> TRUE, cached |-> TRUE, acked |-> first, verified |-> {1},
                   passes |-> 2]
             ELSE [ret |-> TRUE, cached |-> c0, acked |-> first, verified |-> {},
                   passes |-> 2]

\* the ways a set_state call can go.  The fault is the call that fails: the
\* select_device of line 183, the _read_ports of line 187, or the
\* select_device of the second pass; p0 and p1 are the answers to the two
\* passes (an answer that is never asked for is "ack")
WriteScripts ==
    {w \in [fault : {"none", "select", "io", "select1"},
            p0 : PassOutcomes, p1 : PassOutcomes] :
        /\ w.fault \in {"select", "io"} => w.p0 = "ack" /\ w.p1 = "ack"
        /\ w.fault = "select1" => w.p0 # "verified" /\ w.p1 = "ack"
        /\ w.p0 = "verified" => w.p1 = "ack"}

\* DS2413.set_state with _read_ports and _cache_state
set_state ==
    /\ Family = "DS2413"
    /\ \E channel \in {0, 1}, value \in BOOLEAN, states \in PortSamples,
          w \in WriteScripts :
       LET sel0 == BusSelect(IF w.fault = "select" THEN "select" ELSE "none")
           sel1 == SelectOutcome(sel0.cache, SensorId, now, w.fault # "select1", 0)
           new_a == IF channel = 0 THEN value ELSE states[1]
           new_b == IF channel = 1 THEN value ELSE states[2]
           expected == expected_state(new_a, new_b)
           loop == WriteLoop(expected, sel1.ret,
                             Confirmed(w.p0), Reread(w.p0, expected),
                             Confirmed(w.p1), Reread(w.p1, expected))
           began == sel0.ret /\ w.fault # "io"
           cached == began /\ loop.cached
       IN  /\ w.fault # "none" => faults < MaxFaults
           /\ faults' = IF w.fault = "none" THEN faults ELSE faults + 1
           /\ cycle < MaxCycles
           /\ cycle' = cycle + 1
           /\ timeout_cache' = IF began /\ (loop.passes = 2 \/ ~loop.ret)
                                THEN sel1.cache ELSE sel0.cache
           /\ reading' = IF cached
                         THEN [value |-> expected, timestamp |-> now,
                               cache_time |-> CACHE_TIMEOUT["DS2413"]]
                         ELSE reading
           /\ sstate' = IF cached THEN "IDLE" ELSE sstate
           /\ last_action' = IF cached THEN now ELSE last_action
           /\ pollLog' = [op |-> "set_state", began |-> began,
                          acked |-> IF began THEN loop.acked ELSE {},
                          verified |-> IF began THEN loop.verified ELSE {},
                          channel |-> channel, value |-> value, read |-> states,
                          byte |-> state_byte(new_a, new_b),
                          passes |-> IF began THEN loop.passes ELSE 0,
                          cached |-> cached,
                          ret |-> began /\ loop.ret]
    /\ UNCHANGED <<expiredSeen, new_vdd, new_vad, new_vse, new_temp>>
    /\ UNCHANGED <<now, SensorKeeps>>

\* time.time() advances between two calls
SensorTick ==
    /\ ticks < CycleWaits[Family] + MaxTicks
    /\ \E dt \in {CONVERSION_TIME[Family], CACHE_TIMEOUT[Family]} : now' = now + dt
    /\ ticks' = ticks + 1
    /\ pollLog' = NoPoll
    /\ UNCHANGED <<scanVars, selVars, sstate, last_action, reading, new_vdd,
                   new_vad, new_vse, new_temp, cycle, expiredSeen, custom_cache,
                   faults, nonSensorVars>>

\* a bus whose constructor has registered the one device attached to it
InitBusScanned(roms) ==
    /\ now = 0
    /\ \E rom \in roms :
          /\ busDevices = {rom}
          /\ devices = Put(NoDevices, HexId(rom), DeviceEntry(rom))
    /\ participating = {}
    /\ last_scan_time = 0
    /\ timeout_cache = [id \in {} |-> NoEntry]
    /\ scanPc = "done"
    /\ scanCaller = "init"
    /\ scanFound = NoDevices
    /\ rom_no = ZeroRom
    /\ last_discrepancy = 0
    /\ last_zero = 0
    /\ id_bit_number = 1
    /\ scanPasses = 1
    /\ prevRom = ZeroRom
    /\ selDev = <<>>
    /\ selLog = NoCall
    /\ recFailures = 0
    /\ recLast = 0

InitSensorOnly ==
    /\ InitBusScanned({RomA, RomD, RomE})
    /\ InitTransport
    /\ InitApi
    /\ InitSensors(CustomCaches)
    /\ InitIo

NextSensor ==
    \/ get_temperature
    \/ get_reading
    \/ get_state
    \/ SensorTick

SpecSensor == InitSensorOnly /\ [][NextSensor]_vars

\* a DS2413 that is read and written
InitSwitchOnly ==
    /\ InitBusScanned({RomE})
    /\ InitTransport
    /\ InitApi
    /\ InitSensors({0})
    /\ InitIo

NextSwitch ==
    \/ get_state
    \/ set_state
    \/ SensorTick

SpecSwitch == InitSwitchOnly /\ [][NextSwitch]_vars

(***************************************************************************)
(* PCF8574 I/O expander (pcf8574.py)                                       *)
(***************************************************************************)
\* time.time() * 1000 when the first call is made
BootTime == 1000

\* bytes the expander returns, ports that are written, times between calls
PcfBytes == {0, 254, 255}
PcfPorts == {0}
PcfTicks == {20, 40}

\* [(value & (1 << i)) >> i for i in range(8)]
PortValues(value) ==
    <<BitOf(value, 0), BitOf(value, 1), BitOf(value, 2), BitOf(value, 3),
      BitOf(value, 4), BitOf(value, 5), BitOf(value, 6), BitOf(value, 7)>>

sensorNoTicks == <<sstate, last_action, reading, new_vdd, new_vad, new_vse, new_temp,
                   cycle, custom_cache, pollLog, expiredSeen, faults>>

\* line 49
Settled(t, since) == t - since >= debounce_time

\* PCF8574.read_ports (lines 26-64) with set_high=False, as _poll_once reads
\* an output module; value is the byte read, None an OSError
pcf_read_ports ==
    /\ UNCHANGED pcf_latch
    /\ \E value \in PcfBytes \cup {None} :
           LET first == value # pcf_last_value /\ value # pcf_new_value
               commit == /\ value # pcf_last_value
                         /\ value = pcf_new_value
                         /\ Settled(now, pcf_new_value_time)
           IN  IF value = None
               THEN /\ pcfLog' = [op |-> "read_ports", value |-> None, at |-> now,
                                  since |-> runSince, last_before |-> pcf_last_value,
                                  states_before |-> pcf_port_states,
                                  ret_states |-> pcf_port_states,
                                  ret_value |-> pcf_last_value]
                    /\ UNCHANGED <<pcf_last_value, pcf_port_states, pcf_new_value,
                                   pcf_new_value_time, pcf_init_counter, runValue, runSince>>
               ELSE /\ IF debounce_time > 0
                       THEN /\ pcf_new_value' = IF first THEN value ELSE pcf_new_value
                            /\ pcf_new_value_time' = IF first THEN now ELSE pcf_new_value_time
                            /\ pcf_port_states' = IF commit THEN PortValues(value)
                                                  ELSE pcf_port_states
                            /\ pcf_last_value' = IF commit THEN value ELSE pcf_last_value
                       ELSE /\ pcf_port_states' = PortValues(value)
                            /\ pcf_last_value' = value
                            /\ UNCHANGED <<pcf_new_value, pcf_new_value_time>>
                    /\ pcf_init_counter' = IF pcf_init_counter < MIN_INIT
                                           THEN pcf_init_counter + 1 ELSE pcf_init_counter
                    /\ runValue' = value
                    /\ runSince' = IF value = runValue THEN runSince ELSE now
                    /\ pcfLog' = [op |-> "read_ports", value |-> value, at |-> now,
                                  since |-> runSince', last_before |-> pcf_last_value,
                                  states_before |-> pcf_port_states,
                                  ret_states |-> pcf_port_states',
                                  ret_value |-> IF debounce_time > 0 /\ first
                                                THEN pcf_last_value ELSE value]
    /\ UNCHANGED <<now, nonPcfVars, sensorVars>>

\* lines 90-95 with the bit set in a fresh byte instead of the current one
new_value_fresh(current, port, state) ==
    IF state # 0 THEN Pow2(port) ELSE 0

\* lines 90-95: the byte to write
new_value(current, port, state) ==
    IF state # 0 THEN SetBit(current, port) ELSE ClearBit(current, port)

\* what the verification read returns: the byte written, that byte with bit 7
\* flipped, or None for an OSError
VerifyRead(rv, written) ==
    IF rv = "same" THEN written
    ELSE IF rv = "noise" THEN Xor8(written, 128)
    ELSE None

\* PCF8574.write_port (lines 66-121) with verify=True.  When last_value is
\* invalid, w0 tells whether the write of 0xFF succeeds and r0 is the byte
\* read after it; wr tells whether the write of the new value succeeds, rv is
\* what is read back; None is an OSError
pcf_write_port ==
    /\ \E port \in PcfPorts, state \in {0, 1}, w0 \in BOOLEAN,
          r0 \in PcfBytes \cup {None}, wr \in BOOLEAN,
          rv \in {"same", "noise", "oserror"} :
           LET invalid == ~(0 <= pcf_last_value /\ pcf_last_value <= 255)
               released == invalid /\ w0
               known == IF invalid THEN r0 ELSE pcf_last_value
               written == IF known = None THEN None ELSE new_value(known, port, state)
               sent == known # None /\ wr
               read_value == IF sent THEN VerifyRead(rv, written) ELSE None
               ok == sent /\ read_value = written
           IN  \* outcomes that are never looked at are not enumerated twice
               /\ ~invalid => r0 = None /\ w0
               /\ ~w0 => r0 = None
               /\ pcf_latch' = IF sent THEN written
                               ELSE IF released THEN 255 ELSE pcf_latch
               /\ ~sent => rv = "oserror"
               /\ known = None => wr
               /\ pcf_last_value' = IF ok THEN written
                                    ELSE IF known # None THEN known ELSE pcf_last_value
               /\ pcf_port_states' = IF ok THEN [pcf_port_states EXCEPT ![port + 1] = state]
                                     ELSE pcf_port_states
               /\ pcfLog' = [op |-> "write_port", port |-> port,
                             latch_before |-> pcf_latch,
                             reread |-> IF invalid THEN r0 ELSE None,
                             sent |-> (IF released THEN <<255>> ELSE <<>>)
                                      \o (IF sent THEN <<written>> ELSE <<>>),
                             written |-> IF sent THEN written ELSE None,
                             read |-> read_value,
                             last_before |-> pcf_last_value,
                             states_before |-> pcf_port_states, ret |-> ok]
    /\ UNCHANGED <<pcf_new_value, pcf_new_value_time, pcf_init_counter, runValue, runSince>>
    /\ UNCHANGED <<now, nonPcfVars, sensorVars>>

\* time passes between two calls
PcfTick ==
    /\ ticks < MaxPcfTicks
    /\ \E dt \in PcfTicks : now' = now + dt
    /\ ticks' = ticks + 1
    /\ pcfLog' = NoPcfCall
    /\ UNCHANGED <<pcf_last_value, pcf_port_states, pcf_new_value, pcf_new_value_time,
                   pcf_init_counter, pcf_latch, runValue, runSince>>
    /\ UNCHANGED <<nonPcfVars, sensorNoTicks>>

\* a bus whose devices are registered, at the time of the first call
InitBusReady(t) ==
    /\ now = t
    /\ busDevices = {RomA}
    /\ devices = Put(NoDevices, HexId(RomA), DeviceEntry(RomA))
    /\ participating = {}
    /\ last_scan_time = 0
    /\ timeout_cache = [id \in {} |-> NoEntry]
    /\ scanPc = "done"
    /\ scanCaller = "init"
    /\ scanFound = NoDevices
    /\ rom_no = ZeroRom
    /\ last_discrepancy = 0
    /\ last_zero = 0
    /\ id_bit_number = 1
    /\ scanPasses = 1
    /\ prevRom = ZeroRom
    /\ selDev = <<>>
    /\ selLog = NoCall
    /\ recFailures = 0
    /\ recLast = 0

\* the expander as the driver finds it: the output of port 1 left energized
\* by an earlier run
PcfLatches == {253}

InitPcfOnly ==
    /\ InitBusReady(BootTime)
    /\ InitTransport
    /\ InitApi
    /\ InitSensors({0})
    /\ InitPcf /\ InitLatch(PcfLatches) /\ InitDm /\ InitBlind /\ InitLed

NextPcf ==
    \/ pcf_read_ports
    \/ pcf_write_port
    \/ PcfTick

SpecPcf == InitPcfOnly /\ [][NextPcf]_vars

\* writes and reads in any order; write_port does not look at the time
NextPcfWrite ==
    \/ pcf_read_ports
    \/ pcf_write_port

SpecPcfWrite == InitPcfOnly /\ [][NextPcfWrite]_vars

(***************************************************************************)
(* DM117 digital module (dm117.py)                                         *)
(***************************************************************************)
\* DM117._read_interval, in ms
read_interval == 10

PORT_TYPE_INPUT == 0
PORT_TYPE_DAC == 1
PORT_TYPE_OUTPUT == 2

\* Crc8Smbus.calc: polynomial 0x07, initial value 0, no reflection
Crc8Smbus(data) == smbus_calc_crc8(data)

\* the bytes of the modules of a response; one module is its type byte and
\* then one value byte, or two for a dimmer
RECURSIVE Flatten(_)
Flatten(mods) == IF mods = <<>> THEN <<>> ELSE Head(mods) \o Flatten(Tail(mods))

\* the response of the module firmware: count, modules, CRC8
DmFrame(mods) ==
    LET data == <<Len(mods)>> \o Flatten(mods)
    IN  data \o <<Crc8Smbus(data)>>

\* module lists the firmware reports: none; one input; a dimmer and an output
DmModuleLists == {<<>>, <<<<0, 1>>>>, <<<<1, 1, 44>>, <<2, 0>>>>}

\* the byte streams a read can meet: good frames, a flipped CRC byte, a
\* flipped type byte (0 <-> 2), a module count of 9 or 255, a stream that
\* stops after two bytes (OSError on the next read)
DmResponses ==
    LET good == {DmFrame(m) : m \in DmModuleLists}
    IN  good
        \cup {[f EXCEPT ![Len(f)] = Xor8(f[Len(f)], 1)] : f \in good}
        \cup {[f EXCEPT ![2] = Xor8(f[2], 2)] : f \in {g \in good : Len(g) = 4}}
        \cup {[f EXCEPT ![1] = c] : f \in good, c \in {9, 255}}
        \cup {SubSeq(f, 1, 2) : f \in {g \in good : Len(g) > 2}}

\* self.port_types[i] = t, for i = 0 .. len(port_types)
SetType(types, i, t) ==
    IF i + 1 <= Len(types) THEN [types EXCEPT ![i + 1] = t] ELSE Append(types, t)

\* a driver that accepts any module count
InvalidCountNever(num_modules) == FALSE

\* line 217
InvalidCount(num_modules) == num_modules > 8

\* lines 223-238: the loop over the modules, from module i and byte pos on.
\* A read past the end of the stream is an OSError
RECURSIVE ReadModules(_, _, _, _, _, _, _)
ReadModules(resp, pos, i, n, values, types, data) ==
    IF i = n THEN [err |-> FALSE, pos |-> pos, values |-> values, types |-> types,
                   data |-> data]
    ELSE IF pos > Len(resp)
    THEN [err |-> TRUE, pos |-> pos - 1, values |-> values, types |-> types, data |-> data]
    ELSE LET module_type == resp[pos]
             width == IF module_type = 1 THEN 2 ELSE 1
         IN  IF pos + width > Len(resp)
             THEN [err |-> TRUE, pos |-> Len(resp), values |-> values, types |-> types,
                   data |-> data]
             ELSE IF module_type = 1
             THEN ReadModules(resp, pos + 3, i + 1, n,
                              Append(values, resp[pos + 1] * 256 + resp[pos + 2]),
                              SetType(types, i, PORT_TYPE_DAC),
                              data \o <<module_type, resp[pos + 1], resp[pos + 2]>>)
             ELSE ReadModules(resp, pos + 2, i + 1, n,
                              Append(values, resp[pos + 1]),
                              SetType(types, i, IF module_type = 2 THEN PORT_TYPE_OUTPUT
                                                ELSE PORT_TYPE_INPUT),
                              data \o <<module_type, resp[pos + 1]>>)

\* lines 213-262 for one byte stream: what is returned (None, or the values),
\* the new port_types, how many bytes were read, and whether the response
\* was accepted
ReadResponse(resp, types) ==
    LET num_modules == resp[1]
    IN  IF InvalidCount(num_modules)
        THEN [ret |-> None, types |-> types, consumed |-> 1, count |-> num_modules,
              crc |-> "unread", accepted |-> FALSE]
        ELSE LET r == ReadModules(resp, 2, 0, num_modules, <<>>, types, <<num_modules>>)
             IN  IF r.err \/ r.pos > Len(resp)
                 THEN [ret |-> None, types |-> r.types, consumed |-> Len(resp),
                       count |-> num_modules, crc |-> "unread", accepted |-> FALSE]
                 ELSE IF resp[r.pos] # Crc8Smbus(r.data)
                 THEN [ret |-> None, types |-> r.types, consumed |-> r.pos,
                       count |-> num_modules, crc |-> "mismatch", accepted |-> FALSE]
                 ELSE [ret |-> r.values, types |-> r.types, consumed |-> r.pos,
                       count |-> num_modules, crc |-> "match", accepted |-> TRUE]

\* DM117.read_ports (lines 192-262)
dm_read_ports ==
    /\ \E resp \in DmResponses \cup {<<>>} :
          LET throttled == now - dm_last_read_time < read_interval
              before == [last_values |-> dm_last_values, port_types |-> dm_port_types,
                         last_read_time |-> dm_last_read_time,
                         init_counter |-> dm_init_counter, bus_time |-> dm_bus_time]
          IN  IF throttled
              THEN /\ resp = <<>>
                   /\ dmLog' = [op |-> "read_ports", ret |-> dm_last_values,
                                consumed |-> 0, count |-> None, crc |-> "unread",
                                issued |-> FALSE, before |-> before]
                   /\ UNCHANGED <<dm_last_values, dm_port_types, dm_last_read_time,
                                  dm_init_counter, dm_bus_time>>
              ELSE IF resp = <<>>
              THEN \* write_byte(CMD_READ) or the first read_byte raises OSError
                   /\ dmLog' = [op |-> "read_ports", ret |-> None,
                                consumed |-> 0, count |-> None, crc |-> "unread",
                                issued |-> TRUE, before |-> before]
                   /\ dm_bus_time' = now
                   /\ UNCHANGED <<dm_last_values, dm_port_types, dm_last_read_time,
                                  dm_init_counter>>
              ELSE LET r == ReadResponse(resp, dm_port_types)
                   IN  /\ dm_bus_time' = now
                       /\ dm_port_types' = r.types
                       /\ dm_last_values' = IF r.accepted THEN r.ret ELSE dm_last_values
                       /\ dm_last_read_time' = IF r.accepted THEN now
                                               ELSE dm_last_read_time
                       /\ dm_init_counter' =
                             IF r.accepted /\ dm_init_counter < MIN_INIT
                             THEN dm_init_counter + 1 ELSE dm_init_counter
                       /\ dmLog' = [op |-> "read_ports", ret |-> r.ret,
                                    consumed |-> r.consumed, count |-> r.count,
                                    crc |-> r.crc, issued |-> TRUE, before |-> before]
    /\ UNCHANGED <<now, nonDmVars, sensorVars>>

\* time passes between two calls
DmTick ==
    /\ ticks < MaxDmTicks
    /\ \E dt \in {5, 10} : now' = now + dt
    /\ ticks' = ticks + 1
    /\ dmLog' = NoDmCall
    /\ UNCHANGED <<dm_last_values, dm_port_types, dm_last_read_time, dm_init_counter,
                   dm_bus_time>>
    /\ UNCHANGED <<nonDmVars, sensorNoTicks>>

InitDmOnly ==
    /\ InitBusReady(BootTime)
    /\ InitTransport
    /\ InitApi
    /\ InitSensors({0})
    /\ InitIo

NextDm ==
    \/ dm_read_ports
    \/ DmTick

SpecDm == InitDmOnly /\ [][NextDm]_vars

(***************************************************************************)
(* CasaITBlindCover (cover.py): service calls and the motion task          *)
(*   blind.pc / blind.mpc   position of the service call / the motion task *)
(*   blind.up / blind.down  the relay of the up / down port is energized   *)
(*   blind.result           state of the asyncio task behind _movement_task*)
(***************************************************************************)
CoverTasks == {"cover", "motion"}

\* a write_port job: the port is written; write_byte fails with OSError and
\* write_port returns False; the bridge fails with SMBusProxyError, which
\* write_port does not catch
WriteResults == {"ok", "oserror", "raise"}

Off == [up |-> FALSE, down |-> FALSE]

SoPc(b, t) == IF t = "motion" THEN b.mpc ELSE b.pc

WithPc(b, t, p) == IF t = "motion" THEN [b EXCEPT !.mpc = p] ELSE [b EXCEPT !.pc = p]

\* the awaits at which a task is suspended and a cancellation is delivered
Suspended == {"moving", "overrun", "so_lock", "so_up", "so_down", "so_poll"}

\* the motion task is over; `cleared` tells whether lines 266-269 have run
TaskEnds(b, result, cleared) ==
    [b EXCEPT !.mpc = "done", !.result = result, !.cancel = FALSE, !.why = "none",
              !.movement_task = IF cleared THEN FALSE ELSE @,
              !.target = IF cleared THEN None ELSE @]

\* _async_set_outputs raises in task t
SetOutputsRaised(b, t) ==
    IF t = "motion" THEN TaskEnds(b, "exception", FALSE)
    ELSE [b EXCEPT !.pc = "idle", !.op = "none", !.phase = "none"]

\* _async_set_outputs returns in task t: the motion task ends (a cancelled
\* one re-raises CancelledError after its finally block); _stop_motion
\* returns to its caller; _start_motion creates the motion task
SetOutputsReturned(b, t) ==
    IF t = "motion"
    THEN TaskEnds(b, IF b.why = "cancelled" THEN "cancelled" ELSE "ok", TRUE)
    ELSE IF b.phase = "stopping"
    THEN IF b.op = "stop"
         THEN [b EXCEPT !.pc = "idle", !.op = "none", !.phase = "none", !.target = None]
         ELSE [b EXCEPT !.pc = "start", !.phase = "none", !.target = None]
    ELSE [b EXCEPT !.pc = "idle", !.op = "none", !.phase = "none",
                   !.target = IF b.op = "open" THEN 100 ELSE 0,
                   !.movement_task = TRUE, !.mpc = "moving", !.result = "running",
                   !.why = "none", !.cancel = FALSE]

\* one step of the entity; the log records the outputs as the task leaves them
Step(b) ==
    /\ blind' = b
    /\ motionLog' = IF b.mpc = "done" /\ blind.mpc # "done"
                    THEN [op |-> "ended", why |-> blind.why, result |-> b.result,
                          up |-> b.up, down |-> b.down]
                    ELSE IF b.mpc = "moving" /\ blind.mpc # "moving" THEN NoMotion
                    ELSE motionLog

\* what the entity leaves alone
apiRest == <<apc, job, probeIdx, found_by_code, scanOwPass, im117_om117, dm117, sm117,
             ow_devices, poll_task, init_done, rescans, poll_states, ow_value>>

nonCoverVars == <<now, scanVars, selVars, transportVars, sensorVars, pcfVars, dmVars,
                  ledVars, apiRest, lifeVars>>

\* a service call: async_stop_cover, async_open_cover, async_close_cover, up
\* to the first await of _stop_motion
CoverCall ==
    /\ blind.pc = "idle"
    /\ \E op \in {"stop", "open", "close"} :
          LET b == blind
          IN  IF op # "stop" /\ AddrOM \notin im117_om117
              THEN Step(b)
              ELSE IF blind.movement_task
              THEN Step([b EXCEPT !.pc = "stop_await", !.op = op,
                                  !.cancel = (blind.result = "running")])
              ELSE Step([b EXCEPT !.pc = "so_begin", !.op = op, !.phase = "stopping",
                                  !.want["cover"] = Off])
    /\ UNCHANGED <<lock, lockWaiters, published, nonCoverVars>>

\* _stop_motion: await self._movement_task returns, or raises what the task
\* raised (only CancelledError is suppressed)
StopAwait ==
    /\ blind.pc = "stop_await"
    /\ blind.mpc = "done"
    /\ IF blind.result = "exception"
       THEN Step([blind EXCEPT !.pc = "idle", !.op = "none"])
       ELSE Step([blind EXCEPT !.pc = "so_begin", !.phase = "stopping",
                               !.movement_task = FALSE, !.want["cover"] = Off])
    /\ UNCHANGED <<lock, lockWaiters, published, nonCoverVars>>

\* _start_motion after _stop_motion (lines 201-210)
StartOutputs ==
    /\ blind.pc = "start"
    /\ LET target == IF blind.op = "open" THEN 100 ELSE 0
       IN  IF blind.position = target
           THEN Step([blind EXCEPT !.pc = "idle", !.op = "none"])
           ELSE Step([blind EXCEPT !.pc = "so_begin", !.phase = "starting",
                                   !.want["cover"] = [up |-> target > blind.position,
                                                      down |-> target < blind.position]])
    /\ UNCHANGED <<lock, lockWaiters, published, nonCoverVars>>

\* _async_set_outputs: the registry lookup, then async with self._api.lock
SetOutputsEnter(t) ==
    /\ SoPc(blind, t) = "so_begin"
    /\ IF AddrOM \notin im117_om117
       THEN Step(SetOutputsRaised(blind, t)) /\ UNCHANGED <<lock, lockWaiters>>
       ELSE Step(WithPc(blind, t, "so_lock")) /\ Acquire(t)
    /\ UNCHANGED <<published, nonCoverVars>>

\* the lock is held: write_port of the up port is handed to the executor
WriteUp(t) ==
    /\ SoPc(blind, t) = "so_lock"
    /\ lock = t
    /\ Step(WithPc(blind, t, "so_up"))
    /\ UNCHANGED <<lock, lockWaiters, published, nonCoverVars>>

\* the first job is over (its return value is dropped), write_port of the
\* down port is handed to the executor
WriteDown(t) ==
    /\ SoPc(blind, t) = "so_up"
    /\ \E r \in WriteResults :
          IF r = "raise"
          THEN Step(SetOutputsRaised(blind, t)) /\ Release
          ELSE /\ Step(WithPc([blind EXCEPT !.up = IF r = "ok" THEN blind.want[t].up
                                                   ELSE @], t, "so_down"))
               /\ UNCHANGED <<lock, lockWaiters>>
    /\ UNCHANGED <<published, nonCoverVars>>

\* the second job is over, the lock is released
WriteRelease(t) ==
    /\ SoPc(blind, t) = "so_down"
    /\ Release
    /\ \E r \in WriteResults :
          IF r = "raise"
          THEN Step(SetOutputsRaised(blind, t))
          ELSE Step(WithPc([blind EXCEPT !.down = IF r = "ok" THEN blind.want[t].down
                                                   ELSE @], t, "so_refresh"))
    /\ UNCHANGED <<published, nonCoverVars>>

\* async_force_refresh: _poll_once takes the lock
ForceRefresh(t) ==
    /\ SoPc(blind, t) = "so_refresh"
    /\ Acquire(t)
    /\ Step(WithPc(blind, t, "so_poll"))
    /\ UNCHANGED <<published, nonCoverVars>>

\* _poll_once has read the modules and publishes; _async_set_outputs returns
ForceRefreshDone(t) ==
    /\ SoPc(blind, t) = "so_poll"
    /\ lock = t
    /\ Release
    /\ \E okPcf, okDm \in BOOLEAN :
          published' = (IF AddrOM \in im117_om117 THEN Entry(AddrOM, okPcf) ELSE {})
                       \cup (IF AddrDM \in dm117 THEN Entry(AddrDM, okDm) ELSE {})
    /\ Step(SetOutputsReturned(blind, t))
    /\ UNCHANGED nonCoverVars

\* _run_motion: one more pass of the loop; at the target the task sleeps for
\* the overrun time
MotionProgress ==
    /\ blind.mpc = "moving"
    /\ ~blind.cancel
    /\ LET next == IF blind.position = blind.target THEN blind.target
                   ELSE IF blind.position = 50 THEN blind.target ELSE 50
       IN  Step([blind EXCEPT !.position = next,
                              !.mpc = IF next = blind.target THEN "overrun" ELSE "moving"])
    /\ UNCHANGED <<lock, lockWaiters, published, nonCoverVars>>

\* the overrun sleep is over: finally
MotionReached ==
    /\ blind.mpc = "overrun"
    /\ ~blind.cancel
    /\ Step([blind EXCEPT !.mpc = "so_begin", !.why = "reached", !.want["motion"] = Off])
    /\ UNCHANGED <<lock, lockWaiters, published, nonCoverVars>>

\* async_write_ha_state raises in the loop: except Exception, then finally
MotionError ==
    /\ blind.mpc = "moving"
    /\ ~blind.cancel
    /\ Step([blind EXCEPT !.mpc = "so_begin", !.why = "error", !.want["motion"] = Off])
    /\ UNCHANGED <<lock, lockWaiters, published, nonCoverVars>>

\* the cancellation asked for by _stop_motion reaches the task at the await
\* it is suspended in. In one of the sleeps: except CancelledError, then
\* finally. Inside _async_set_outputs of the finally block: the block is
\* left at once; a write_port job already handed to the executor may still
\* write
MotionCancelled ==
    /\ blind.cancel
    /\ blind.mpc \in Suspended
    /\ IF blind.mpc \in {"moving", "overrun"}
       THEN /\ Step([blind EXCEPT !.mpc = "so_begin", !.why = "cancelled", !.cancel = FALSE,
                                  !.want["motion"] = Off])
            /\ UNCHANGED <<lock, lockWaiters>>
       ELSE /\ IF lock = "motion" THEN Release
               ELSE /\ lockWaiters' = SelectSeq(lockWaiters, LAMBDA x : x # "motion")
                    /\ UNCHANGED lock
            /\ \E lands \in BOOLEAN :
                  LET b == IF lands /\ blind.mpc = "so_up" THEN [blind EXCEPT !.up = FALSE]
                           ELSE IF lands /\ blind.mpc = "so_down"
                           THEN [blind EXCEPT !.down = FALSE]
                           ELSE blind
                  IN  Step(TaskEnds(b, "cancelled", FALSE))
    /\ blind.mpc = "so_lock" => lock # "motion"
    /\ UNCHANGED <<published, nonCoverVars>>

\* the integration is set up: an output module is registered at AddrOM and
\* _async_initialize has returned
InitApiRunning ==
    /\ lock = "none"
    /\ lockWaiters = <<>>
    /\ apc = [t \in Tasks |-> IF t = "init" THEN "done" ELSE "idle"]
    /\ job = [t \in Tasks |-> NoJob]
    /\ probeIdx = [t \in Scanners |-> 1]
    /\ found_by_code = [t \in Scanners |-> {}]
    /\ scanOwPass = [t \in Scanners |-> 1]
    /\ im117_om117 = {AddrOM}
    /\ dm117 = {}
    /\ sm117 = {}
    /\ ow_devices = {}
    /\ poll_task = TRUE
    /\ init_done = TRUE
    /\ rescans = 0
    /\ poll_states = [t \in {"poll", "write"} |-> {}]
    /\ published = {}
    /\ ow_value = FALSE
    /\ InitLife

InitCoverOnly ==
    /\ InitBusReady(BootTime)
    /\ InitTransport
    /\ InitApiRunning
    /\ InitSensors({0})
    /\ InitIo

\* the entity, and the poll loop next to it
NextCover ==
    \/ CoverCall
    \/ StopAwait
    \/ StartOutputs
    \/ \E t \in CoverTasks :
          \/ SetOutputsEnter(t)
          \/ WriteUp(t)
          \/ WriteDown(t)
          \/ WriteRelease(t)
          \/ ForceRefresh(t)
          \/ ForceRefreshDone(t)
    \/ MotionProgress
    \/ MotionReached
    \/ MotionError
    \/ MotionCancelled
    \/ IssueCmd("poll")
    \/ PollOnceEnter("poll")
    \/ PollPcf("poll")
    \/ PollDm("poll")
    \/ PollOnceExit("poll")

SpecCover == InitCoverOnly /\ [][NextCover]_vars

(***************************************************************************)
(* C1: on a fault-free bus with N >= 1 devices whose ROM codes are         *)
(* pairwise distinct and CRC-valid, _scan_bus is never cut short, makes no *)
(* more than N walks, and ends with a registry that holds exactly the N    *)
(* ROM codes of the bus, each found by exactly one walk.                   *)
(***************************************************************************)
AllCrcValid == busDevices # {} /\ \A r \in busDevices : CrcValid(r)

C1_ScanEnumeratesExactly ==
    AllCrcValid =>
        /\ scanPc # "aborted"
        /\ scanPasses <= Cardinality(busDevices)
        /\ scanPc = "done" =>
              /\ DOMAIN devices = {HexId(r) : r \in busDevices}
              /\ \A r \in busDevices : devices[HexId(r)] = DeviceEntry(r)
              /\ scanPasses = Cardinality(busDevices)

C1_Witness ==
    /\ scanPc = "done"
    /\ busDevices = {RomA, RomB, RomC}
    /\ Cardinality(DOMAIN devices) = 3

(***************************************************************************)
(* C2 as stated: once three failures of select_device(D) have been         *)
(* recorded, a call made less than 300 s after the last recorded failure   *)
(* returns False, and a call made 300 s or more after it returns True when *)
(* the reset and the ROM writes succeed.                                   *)
(***************************************************************************)
Returned == selLog # NoCall

C2_Original ==
    (Returned /\ selLog.seen >= MAX_FAILURES) =>
        /\ selLog.at - selLog.last < TIMEOUT_DURATION => ~selLog.ret
        /\ (selLog.at - selLog.last >= TIMEOUT_DURATION
              /\ selLog.reset /\ selLog.wfail \notin 2..9) => selLog.ret

(***************************************************************************)
(* C2 amended: when the timeout-cache entry of D holds 3 or more failures  *)
(* (three failures recorded with no call in between that found the entry   *)
(* 300 s old and purged it), a select_device(D) made less than 300 s after *)
(* the entry's timestamp returns False and leaves the entry as it is; the  *)
(* first call made 300 s or more after it, for a D that the registry       *)
(* holds, discards the entry and returns True when the bus reset and the   *)
(* ROM writes succeed (a failing call starts a new entry with 1 failure).  *)
(***************************************************************************)
C2_Amended ==
    (Returned /\ selLog.entry.failures >= MAX_FAILURES) =>
        /\ selLog.at - selLog.entry.timestamp < TIMEOUT_DURATION =>
              /\ ~selLog.ret
              /\ timeout_cache[selLog.dev] = selLog.entry
        /\ (selLog.at - selLog.entry.timestamp >= TIMEOUT_DURATION /\ selLog.known) =>
              /\ (selLog.reset /\ selLog.wfail \notin 2..9) =>
                    selLog.ret /\ ~HasEntry(timeout_cache, selLog.dev)
              /\ ~(selLog.reset /\ selLog.wfail \notin 2..9) =>
                    /\ ~selLog.ret
                    /\ timeout_cache[selLog.dev] = [timestamp |-> selLog.at, failures |-> 1]

C2_Witness ==
    /\ Returned
    /\ selLog.entry.failures >= MAX_FAILURES
    /\ selLog.at - selLog.entry.timestamp >= TIMEOUT_DURATION
    /\ selLog.known
    /\ selLog.ret

(***************************************************************************)
(* C5: _send_command returns a payload only from a frame whose CRC byte    *)
(* equals the CRC8 of its length byte and payload; a frame whose CRC       *)
(* differs is followed by the connection being torn down and by a retry    *)
(* or, after the third attempt, by SMBusProxyError.                        *)
(***************************************************************************)
C5_NoCorruptPayload ==
    \A t \in Threads :
        /\ tres[t].kind = "ok" =>
              /\ rx[t] # NoFrame
              /\ CrcMatches(rx[t])
              /\ tres[t].payload = rx[t].payload
        /\ (rx[t] # NoFrame /\ ~CrcMatches(rx[t])) =>
              /\ tres[t].kind # "ok"
              /\ \/ tpc[t] = "loop" /\ attempt[t] <= 2
                 \/ tpc[t] = "idle" /\ tres[t] = [kind |-> "error", attempts |-> 3]

C5_Witness ==
    \E t \in Threads :
        /\ rx[t] # NoFrame
        /\ ~CrcMatches(rx[t])
        /\ rx[t].payload = <<0, 4>>
        /\ tpc[t] = "loop"

(***************************************************************************)
(* C6 as stated: _send_command raises only after 3 attempts have been made *)
(* and have failed.                                                        *)
(***************************************************************************)
C6_ErrorOnlyAfterThreeAttempts ==
    \A t \in Threads : tres[t].kind = "error" => tres[t].attempts = 3

(***************************************************************************)
(* C7 as stated: while the request of a thread is outstanding (frame sent, *)
(* response not yet read), no other thread closes or replaces the socket.  *)
(***************************************************************************)
C7_NoCloseWhileOutstanding ==
    [][\A t \in Threads :
          (tpc[t] = "sent" /\ tpc'[t] = "sent") => sock' = sock]_vars

\* the executor thread of task t puts a command on the bus in this step
Issues(t) == job'[t] = [job[t] EXCEPT !.issued = @ + 1]

\* task u is between the first and the last command of a transaction
Mid(u) == job[u].issued >= 1 /\ job[u].issued < job[u].total

(***************************************************************************)
(* C3 as stated: no bus command of one operation (probes, bridge           *)
(* initialisation and configure_ports included) is issued in the middle of *)
(* another operation's multi-command transaction.                          *)
(***************************************************************************)
C3_NoCommandInsideTransaction ==
    [][\A t \in Tasks : \A u \in Tasks \ {t} : Issues(t) => ~Mid(u)]_vars

(***************************************************************************)
(* C4 as stated: on the 1-Wire bus of a bridge, no 1-Wire operation of     *)
(* another job (a read, a write, a scan) is issued in the middle of a      *)
(* reset + select + command sequence.                                      *)
(***************************************************************************)
C4_NoInterleavedSelectSequence ==
    [][\A t \in Tasks : \A u \in Tasks \ {t} :
          (Issues(t) /\ job[t].op \in OneWireOps
             /\ job[u].op = "read_temperature" /\ job[t].target = job[u].target)
          => ~Mid(u)]_vars

(***************************************************************************)
(* C8: while the cached Reading of a device is valid, a poll               *)
(* (get_temperature, get_reading, get_state) returns the value of that     *)
(* Reading and leaves the Reading as it was.                               *)
(***************************************************************************)
C8_ValidReadingReturnedUnchanged ==
    (pollLog.op = "poll" /\ pollLog.valid)
    => /\ reading = pollLog.before
       /\ pollLog.ret = ValueOf(pollLog.before, pollLog.channel)

\* a poll that found a valid Reading and still ran the state machine
C8_Witness ==
    /\ pollLog.op = "poll"
    /\ pollLog.valid
    /\ pollLog.state = "IDLE"
    /\ sstate # "IDLE"

\* the poll began a conversion cycle: CONVERT_T for a DS18B20; for a DS2438
\* start_conversion(), or the first command of the cycle it had prepared
StartedCycle ==
    \/ Family = "DS18XB20" /\ pollLog.cmd = "CONVERT_T"
    \/ Family = "DS2438" /\ pollLog.state = "IDLE"
    \/ Family = "DS2438" /\ pollLog.state = "VDD_CONFIG"
                         /\ pollLog.cmd = "WRITE_SCRATCHPAD"

(***************************************************************************)
(* C9 as stated: the first poll that finds the cached Reading expired      *)
(* starts a fresh conversion cycle (on a bus without faults and with an    *)
(* empty timeout cache).                                                   *)
(***************************************************************************)
C9_ExpiredReadingStartsFreshCycle ==
    (/\ pollLog.op = "poll"
     /\ Family \in {"DS18XB20", "DS2438"}
     /\ pollLog.had
     /\ ~pollLog.valid
     /\ pollLog.first
     /\ pollLog.fault = "none"
     /\ DOMAIN timeout_cache = {})
    => StartedCycle

(***************************************************************************)
(* C10: get_reading replaces the published DS2438 Reading only on the poll *)
(* that completes TEMP_READ, and the new Reading has vdd, vad, vse and     *)
(* temperature all collected in the cycle that this poll completes.        *)
(***************************************************************************)
C10_PublishOnlyCompleteCycle ==
    (pollLog.op = "poll" /\ Family = "DS2438" /\ reading # pollLog.before)
    => /\ pollLog.state = "TEMP_READ"
       /\ sstate = "IDLE"
       /\ reading.timestamp = now
       /\ reading.value.vdd = cycle
       /\ reading.value.vad = cycle
       /\ reading.value.vse = cycle
       /\ reading.value.temperature = cycle
       /\ cycle # None

\* a DS2438 poll has just published a Reading
C10_Witness ==
    /\ pollLog.op = "poll"
    /\ Family = "DS2438"
    /\ reading # pollLog.before
    /\ HasReading

\* a DS2438 poll is made in this step, after the first cycle has begun and
\* less than CONVERSION_TIME after the last change of phase
EarlyDs2438Poll ==
    /\ Family = "DS2438"
    /\ pollLog'.op = "poll"
    /\ cycle >= 1
    /\ now - last_action < CONVERSION_TIME["DS2438"]

(***************************************************************************)
(* C11 as stated: a DS2438 poll made sooner than the conversion time after *)
(* the last phase transition leaves the state machine in the same phase,   *)
(* issues no bus command and does not change the published Reading.        *)
(***************************************************************************)
C11_Original ==
    [][EarlyDs2438Poll =>
          /\ sstate' = sstate
          /\ pollLog'.cmd = "none"
          /\ reading' = reading]_vars

(***************************************************************************)
(* C11 amended: a DS2438 poll made sooner than the conversion time after   *)
(* the last phase transition issues no bus command and does not change the *)
(* published Reading; it leaves the state machine in the same phase when   *)
(* that phase is not IDLE, and moves it from IDLE to VDD_CONFIG (the next  *)
(* cycle begins at once, with the new_* values cleared).                   *)
(***************************************************************************)
C11_Amended ==
    [][EarlyDs2438Poll =>
          /\ pollLog'.cmd = "none"
          /\ reading' = reading
          /\ timeout_cache' = timeout_cache
          /\ sstate # "IDLE" =>
                /\ sstate' = sstate
                /\ last_action' = last_action
                /\ <<new_vdd, new_vad, new_vse, new_temp>>' =
                      <<new_vdd, new_vad, new_vse, new_temp>>
          /\ sstate = "IDLE" =>
                /\ sstate' = "VDD_CONFIG"
                /\ last_action' = now
                /\ <<new_vdd, new_vad, new_vse, new_temp>>' =
                      <<None, None, None, None>>]_vars

\* a poll has just found the DS2438 waiting in VAD_READ for the conversion
\* time to pass, with no Reading published yet, and has left it there
C11_Witness ==
    /\ pollLog.op = "poll"
    /\ Family = "DS2438"
    /\ pollLog.state = "VAD_READ"
    /\ sstate = "VAD_READ"
    /\ now - last_action < CONVERSION_TIME["DS2438"]
    /\ pollLog.cmd = "none"
    /\ new_vdd # None
    /\ ~HasReading

(***************************************************************************)
(* C12 as stated: when a phase of a DS2438 cycle fails (selection refused, *)
(* command write fails, scratchpad read or CRC fails, value out of range), *)
(* the state machine is IDLE afterwards and get_reading returns the last   *)
(* published Reading, unchanged.                                           *)
(***************************************************************************)
C12_FailedPhaseResetsToIdle ==
    (pollLog.op = "poll" /\ Family = "DS2438" /\ pollLog.fault # "none")
    => /\ sstate = "IDLE"
       /\ reading = pollLog.before
       /\ pollLog.ret = ValueOf(pollLog.before, pollLog.channel)

(***************************************************************************)
(* C18: every ROM code in the 1-Wire registry, and every candidate a scan  *)
(* in progress has collected, satisfies CRC8(first 7 bytes) = 8th byte and *)
(* is filed under its own hex id; a candidate whose CRC does not match is  *)
(* never registered.                                                       *)
(***************************************************************************)
C18_RegistryCrcValid ==
    /\ \A id \in DOMAIN devices :
          /\ calc_crc8(SubSeq(devices[id].rom, 1, 7)) = devices[id].rom[8]
          /\ id = HexId(devices[id].rom)
    /\ \A id \in DOMAIN scanFound :
          calc_crc8(SubSeq(scanFound[id].rom, 1, 7)) = scanFound[id].rom[8]

\* a scan has walked to the device whose CRC byte is wrong, has finished, and
\* has registered the other two devices only
C18_Witness ==
    /\ scanPc = "done"
    /\ busDevices = {RomA, RomB, RomBad}
    /\ scanPasses = 3
    /\ DOMAIN devices = {HexId(RomA), HexId(RomB)}

(***************************************************************************)
(* C15 as stated: set_state returns True only if, in one of its at most    *)
(* two attempts, the device acknowledged the write (0xAA) or a re-read of  *)
(* the ports showed the expected state; when neither attempt is            *)
(* acknowledged or verified it returns False.                              *)
(***************************************************************************)
C15_TrueOnlyIfConfirmed ==
    (pollLog.op = "set_state" /\ pollLog.ret)
    => (pollLog.acked # {} \/ pollLog.verified # {})

(***************************************************************************)
(* C13 as stated: read_ports changes the committed state (port_states,     *)
(* last_value) to a new value v only when v has been returned by every     *)
(* hardware read since v was first observed and at least debounce_time has *)
(* passed since that first observation; in every other case the committed  *)
(* state stays as it was and port_states is what the call returns.         *)
(***************************************************************************)
C13_CommitOnlyAfterSettling ==
    pcfLog.op = "read_ports" =>
        IF pcf_last_value # pcfLog.last_before \/ pcf_port_states # pcfLog.states_before
        THEN /\ pcf_last_value = pcfLog.value
             /\ pcf_port_states = PortValues(pcfLog.value)
             /\ pcfLog.at - pcfLog.since >= debounce_time
        ELSE pcfLog.ret_states = pcfLog.states_before

(***************************************************************************)
(* C14 as stated: when the verification read of write_port returns a byte  *)
(* different from the byte just written, write_port returns False and      *)
(* leaves last_value and port_states exactly as they were before the call. *)
(***************************************************************************)
C14_FailedVerifyKeepsState ==
    (/\ pcfLog.op = "write_port"
     /\ pcfLog.read # None
     /\ pcfLog.read # pcfLog.written)
    => /\ ~pcfLog.ret
       /\ pcf_last_value = pcfLog.last_before
       /\ pcf_port_states = pcfLog.states_before

\* the driver's cached state is what it was before the call
DmStateKept ==
    /\ dm_last_values = dmLog.before.last_values
    /\ dm_port_types = dmLog.before.port_types
    /\ dm_last_read_time = dmLog.before.last_read_time
    /\ dm_init_counter = dmLog.before.init_counter

(***************************************************************************)
(* C19: when the module count a digital module returns is greater than 8,  *)
(* read_ports returns None, reads no further byte of that response and     *)
(* leaves the cached values (and the rest of the driver's state) as they   *)
(* were.                                                                   *)
(***************************************************************************)
C19_BadCountRejected ==
    (dmLog.op = "read_ports" /\ dmLog.count # None /\ dmLog.count > 8)
    => /\ dmLog.ret = None
       /\ dmLog.consumed = 1
       /\ DmStateKept

\* a count of 9 has been rejected by a driver that holds values of an
\* earlier read
C19_Witness ==
    /\ dmLog.op = "read_ports"
    /\ dmLog.count = 9
    /\ dmLog.ret = None
    /\ dm_last_values = <<300, 0>>

(***************************************************************************)
(* C20 as stated: when the CRC8 received at the end of a response differs  *)
(* from the CRC8 computed over the count and port bytes, read_ports        *)
(* returns None and the response changes none of last_values, port_types,  *)
(* the last read time and the init counter.                                *)
(***************************************************************************)
C20_BadCrcChangesNothing ==
    (dmLog.op = "read_ports" /\ dmLog.crc = "mismatch")
    => /\ dmLog.ret = None
       /\ DmStateKept

\* a poll pass (of the poll loop or of a forced refresh) ends in this step
PollPassEnds == \E t \in {"poll", "write"} : apc[t] = "poll_dm" /\ apc'[t] = "idle"

(***************************************************************************)
(* C16 as stated: after every poll pass every registered expander and      *)
(* every registered digital module has an entry in the published snapshot. *)
(***************************************************************************)
C16_SnapshotCoversRegistry ==
    [][PollPassEnds => (im117_om117' \cup dm117') \subseteq published']_vars

(***************************************************************************)
(* C17 as stated: whenever a blind motion task ends, whether it reached    *)
(* its target, hit an error or was cancelled, both outputs of the pair are *)
(* off at the moment it ends.                                              *)
(***************************************************************************)
C17_OutputsOffWhenTaskEnds ==
    motionLog.op = "ended" => ~motionLog.up /\ ~motionLog.down

\* select_device has got as far as the bus: the device is registered and is
\* not refused by the timeout cache
ReachedBus ==
    /\ Returned
    /\ selLog.known
    /\ ~(selLog.entry.failures >= MAX_FAILURES
          /\ selLog.at - selLog.entry.timestamp < TIMEOUT_DURATION)

(***************************************************************************)
(* C23 as stated: a select_device(D) that succeeds deletes D's entry of    *)
(* the timeout cache, so that only consecutive failures are counted.       *)
(***************************************************************************)
C23_SuccessDeletesEntry ==
    (Returned /\ selLog.ret) => ~HasEntry(timeout_cache, selLog.dev)

\* the failures counted for D before the call, after the purge of line 228
CountBefore ==
    IF selLog.entry.failures > 0
       /\ selLog.at - selLog.entry.timestamp < TIMEOUT_DURATION
    THEN selLog.entry.failures ELSE 0

(***************************************************************************)
(* C24 as stated: on a registered device every failed step of              *)
(* select_device (the bus reset, the write of the match-ROM command, the   *)
(* write of one of the 8 ROM bytes) makes it return False and adds one to  *)
(* the device's failure counter; it returns True only when the reset and   *)
(* all 9 writes succeeded.                                                 *)
(***************************************************************************)
C24_EveryFailedStepCounts ==
    ReachedBus =>
        LET failed == ~selLog.reset \/ selLog.wfail \in 1..9
        IN  /\ failed => /\ ~selLog.ret
                         /\ HasEntry(timeout_cache, selLog.dev)
                         /\ timeout_cache[selLog.dev].failures = CountBefore + 1
            /\ selLog.ret => ~failed

(***************************************************************************)
(* C25 as stated: after every bus scan the registry holds exactly the      *)
(* devices that answered that scan (and passed the CRC test); a device     *)
(* that did not answer is gone, also when no device answers at all or the  *)
(* scan stops early.                                                       *)
(***************************************************************************)
C25_RegistryIsLastScan ==
    scanPc \in {"done", "aborted"} =>
        DOMAIN devices = {HexId(r) : r \in {x \in busDevices : CrcValid(x)}}

(***************************************************************************)
(* C26 as stated: _scan_bus terminates whatever the bus answers; every     *)
(* walk over the 64 bits either ends the scan or advances the search (the  *)
(* ROM code it arrives at comes after the one of the walk before, in the   *)
(* order of the search), which bounds the number of walks.                 *)
(***************************************************************************)
C26_EveryWalkAdvances ==
    (scanPc = "passEnd" /\ scanPasses >= 1) => RomLess(prevRom, rom_no)

\* a temperature poll of the DS18B20 returns in this step
Ds18b20Poll == Family = "DS18XB20" /\ pollLog'.op = "poll"

\* the phases of a DS18B20 cycle, in order
Ds18b20Next == [IDLE |-> "CONVERTING", CONVERTING |-> "READING", READING |-> "IDLE"]

(***************************************************************************)
(* C28: a temperature poll moves the DS18B20 state machine by at most one  *)
(* phase. A cycle leaves IDLE only by a poll that issues the convert       *)
(* command, and that poll alone sets the time the wait is measured from;   *)
(* the scratchpad is read only in the READING phase of a cycle, 750 ms or  *)
(* more after that time.                                                   *)
(***************************************************************************)
C28_OnePhasePerPoll ==
    [][Ds18b20Poll =>
        /\ sstate' = sstate \/ sstate' = Ds18b20Next[sstate]
        /\ (sstate = "IDLE" /\ sstate' # "IDLE") =>
              pollLog'.cmd = "CONVERT_T" /\ last_action' = now /\ cycle' = cycle + 1
        /\ last_action' # last_action => sstate = "IDLE" /\ sstate' = "CONVERTING"
        /\ pollLog'.cmd = "READ_SCRATCHPAD" =>
              /\ sstate = "READING"
              /\ cycle >= 1
              /\ now - last_action >= 750
        /\ reading' # reading => pollLog'.cmd = "READ_SCRATCHPAD"]_vars

\* a poll has read the scratchpad of a cycle and cached its Reading
C28_Witness ==
    /\ Family = "DS18XB20"
    /\ pollLog.op = "poll"
    /\ pollLog.state = "READING"
    /\ pollLog.cmd = "READ_SCRATCHPAD"
    /\ sstate = "IDLE"
    /\ HasReading
    /\ reading.timestamp - last_action >= 750

\* a set_state call has read the ports and gone into its write loop
WroteState == pollLog.op = "set_state" /\ pollLog.began

\* the channel a set_state call was not asked to change (as an index into
\* the pair of port values) and the bit of the state byte that drives it
OtherPort == IF pollLog.channel = 0 THEN 2 ELSE 1
OtherBit == IF pollLog.channel = 0 THEN 2 ELSE 0

(***************************************************************************)
(* C29 as stated: set_state(device, c, value) changes channel c only. The  *)
(* bit of the state byte that drives the other channel is the level just   *)
(* read for it, and the Reading cached after the write holds the value     *)
(* read for the other channel.                                             *)
(***************************************************************************)
C29_OtherChannelKept ==
    WroteState =>
        /\ (BitOf(pollLog.byte, OtherBit) = 1) = pollLog.read[OtherPort]
        /\ pollLog.cached => reading.value[OtherPort] = pollLog.read[OtherPort]

(***************************************************************************)
(* C30 as stated: the write sequence goes out a second time only when the  *)
(* first attempt was neither acknowledged nor verified; an acknowledged    *)
(* first attempt ends the operation after exactly one write sequence.      *)
(***************************************************************************)
C30_OneWriteWhenAcked ==
    WroteState =>
        /\ pollLog.passes = 2 => 0 \notin pollLog.acked \cup pollLog.verified
        /\ 0 \in pollLog.acked => pollLog.passes = 1 /\ pollLog.ret

\* task t takes the step
Acting(t) ==
    \/ apc'[t] # apc[t]
    \/ job'[t] # job[t]
    \/ t \in Scanners /\ scanOwPass'[t] # scanOwPass[t]

\* the step adds an entry to a device registry or removes one
RegistryChanged ==
    im117_om117' # im117_om117 \/ dm117' # dm117 \/ sm117' # sm117

\* a poll pass is inside one of its loops over the registries, waiting for
\* the read of an entry
Iterating ==
    \E p \in {"poll", "write"} :
        apc[p] \in {"poll_pcf", "poll_dm"} /\ job[p].op = "read_ports"

(***************************************************************************)
(* C27 as stated: the device registries, the 1-Wire device registry and    *)
(* the published snapshot are modified only by a task that holds the API   *)
(* lock while it does so, and no registry entry is added or removed while  *)
(* a poll pass iterates the registries.                                    *)
(***************************************************************************)
C27_ModifiedUnderLock ==
    [][/\ \A t \in Tasks :
            (/\ Acting(t)
             /\ \/ RegistryChanged
                \/ ow_devices' # ow_devices
                \/ published' # published)
            => lock = t /\ lock' = t
       /\ RegistryChanged => ~Iterating]_vars

\* the second half of C27 alone
RescanDuringPoll == [][RegistryChanged => ~Iterating]_vars

(***************************************************************************)
(* DS28E17 1-Wire to I2C bridge and the LED controller behind it           *)
(* (ds28e17.py, led_controller.py)                                         *)
(***************************************************************************)
\* the bridge on the bus and its id in the registry
RomL == RomOf(<<25, 1, 0, 0, 0, 0, 0>>)
LedId == HexId(RomL)

\* LEDController.I2C_ADDRESS
I2C_ADDRESS == 66

\* led_controller.py:14, in ms
LED_CACHE_TIMEOUT == 20000

\* read_config, line 196
total_bytes == 20

\* how the bus answers one tunnel transfer: an exception of the transport
\* that the bridge driver does not catch (SMBusProxyError), wire_reset, the wire_reset inside
\* select_device, the writes of the packet, the number of busy answers
\* before the idle one (None: the poll itself fails), the status byte(s)
\* (None: the read fails) and, for a read, the payload
OkScript ==
    [exc |-> FALSE, reset |-> TRUE, sel |-> TRUE, wr |-> TRUE, busy |-> 0,
     status |-> 0, write_status |-> 0]

TunnelScripts ==
    {OkScript,
     [OkScript EXCEPT !.exc = TRUE],
     [OkScript EXCEPT !.reset = FALSE],
     [OkScript EXCEPT !.sel = FALSE],
     [OkScript EXCEPT !.wr = FALSE],
     [OkScript EXCEPT !.busy = None],
     [OkScript EXCEPT !.busy = 99],
     [OkScript EXCEPT !.busy = 100],
     [OkScript EXCEPT !.status = None],
     [OkScript EXCEPT !.write_status = None],
     [OkScript EXCEPT !.status = 2],
     [OkScript EXCEPT !.write_status = 3],
     [OkScript EXCEPT !.status = 2, !.write_status = 1]}

\* the polling loops of lines 96-108 and 173-185 with `busy` answers that are
\* not the idle one: the 100th of them is the timeout
PollEnds(busy) == busy # None /\ busy < 100

\* line 118
StatusOk(status, write_status) == status = 0

\* line 118 with the write status looked at as well
StatusOkBoth(status, write_status) == status = 0 /\ write_status = 0

\* a transfer that got as far as its status bytes
TunnelResult(ret, cache, s) ==
    [ret |-> ret, cache |-> cache, completed |-> TRUE, raised |-> FALSE,
     status |-> s.status, write_status |-> s.write_status]

\* a transfer given up before the status bytes
TunnelGivenUp(cache) ==
    [ret |-> FALSE, cache |-> cache, completed |-> FALSE, raised |-> FALSE,
     status |-> None, write_status |-> None]

\* DS28E17.write_data (lines 44-118); cache is OneWireBus._timeout_cache
write_data(cache, device_id, t, address, len, s) ==
    IF ~(1 <= len /\ len <= 255) THEN TunnelGivenUp(cache)
    ELSE IF ~(0 <= address /\ address <= 127) THEN TunnelGivenUp(cache)
    ELSE IF s.exc THEN [TunnelGivenUp(cache) EXCEPT !.raised = TRUE]
    ELSE IF ~s.reset THEN TunnelGivenUp(cache)
    ELSE LET sel == SelectOutcome(cache, device_id, t, s.sel, 0)
         IN  IF ~sel.ret THEN TunnelGivenUp(sel.cache)
             ELSE IF ~s.wr THEN TunnelGivenUp(sel.cache)
             ELSE IF ~PollEnds(s.busy) THEN TunnelGivenUp(sel.cache)
             ELSE IF s.status = None \/ s.write_status = None
             THEN [TunnelGivenUp(sel.cache) EXCEPT !.status = s.status,
                                                   !.write_status = s.write_status]
             ELSE TunnelResult(StatusOk(s.status, s.write_status), sel.cache, s)

\* DS28E17.read_data (lines 120-203): data is the payload the device sends,
\* <<>> when one of its bytes cannot be read; the result <<>> is None
read_data(cache, device_id, t, address, num_bytes, s, data) ==
    IF ~(1 <= num_bytes /\ num_bytes <= 255) THEN [TunnelGivenUp(cache) EXCEPT !.ret = <<>>]
    ELSE IF ~(0 <= address /\ address <= 127) THEN [TunnelGivenUp(cache) EXCEPT !.ret = <<>>]
    ELSE IF s.exc THEN [TunnelGivenUp(cache) EXCEPT !.ret = <<>>, !.raised = TRUE]
    ELSE LET sel1 == SelectOutcome(cache, device_id, t, s.sel, 0)
             sel2 == SelectOutcome(sel1.cache, device_id, t, TRUE, 0)
         IN  IF ~sel1.ret THEN [TunnelGivenUp(sel1.cache) EXCEPT !.ret = <<>>]
             ELSE IF ~s.reset THEN [TunnelGivenUp(sel1.cache) EXCEPT !.ret = <<>>]
             ELSE IF ~sel2.ret THEN [TunnelGivenUp(sel2.cache) EXCEPT !.ret = <<>>]
             ELSE IF ~s.wr THEN [TunnelGivenUp(sel2.cache) EXCEPT !.ret = <<>>]
             ELSE IF ~PollEnds(s.busy) THEN [TunnelGivenUp(sel2.cache) EXCEPT !.ret = <<>>]
             ELSE IF s.status = None THEN [TunnelGivenUp(sel2.cache) EXCEPT !.ret = <<>>]
             ELSE IF data = <<>>
             THEN [TunnelResult(<<>>, sel2.cache, s) EXCEPT !.write_status = None]
             ELSE [TunnelResult(SubSeq(data, 1, num_bytes), sel2.cache, s)
                     EXCEPT !.write_status = None]

\* AnimationMode values (led_controller.py:17-24)
AnimationCodes == 0..4

Black == <<0, 0, 0>>
White == <<255, 255, 255>>

\* LEDConfig.create_default (lines 57-72)
create_default ==
    [led_count |-> 30, state |-> FALSE, brightness |-> 128, animation |-> 0,
     animation_speed |-> 50, colors |-> <<White, Black, Black, Black, Black>>]

\* configurations handed to write_config: two that validate, one with no
\* LEDs, one with four colours
LedConfigs ==
    {create_default,
     [create_default EXCEPT !.led_count = 10, !.state = TRUE, !.animation = 1],
     [create_default EXCEPT !.led_count = 0],
     [create_default EXCEPT !.colors = <<White, Black, Black, Black>>]}

InByte(x) == 0 <= x /\ x <= 255

\* LEDConfig.validate (lines 74-90)
validate(c) ==
    /\ 1 <= c.led_count /\ c.led_count <= 255
    /\ InByte(c.brightness)
    /\ InByte(c.animation_speed)
    /\ Len(c.colors) = 5
    /\ \A i \in 1..Len(c.colors) : \A k \in 1..3 : InByte(c.colors[i][k])

\* write_config, lines 138-151: the register address and the 20 bytes
ConfigBytes(c) ==
    <<0, c.led_count, IF c.state THEN 1 ELSE 0, c.brightness, c.animation,
      c.animation_speed>> \o Flatten(c.colors)

\* read_config, lines 205-230: the configuration in a payload of 20 bytes
ParseConfig(data) ==
    [led_count |-> data[1], state |-> data[2] # 0, brightness |-> data[3],
     animation |-> data[4], animation_speed |-> data[5],
     colors |-> [i \in 1..5 |-> <<data[6 + (i - 1) * 3], data[7 + (i - 1) * 3],
                                  data[8 + (i - 1) * 3]>>]]

\* payloads the controller sends: two configurations, one with an animation
\* code that is no AnimationMode, one of zeros; <<>> is a failed byte read
LedPayloads ==
    {Tail(ConfigBytes(create_default)),
     Tail(ConfigBytes([create_default EXCEPT !.led_count = 10, !.state = TRUE])),
     Tail(ConfigBytes([create_default EXCEPT !.animation = 7])),
     [i \in 1..20 |-> 0],
     <<>>}

\* CachedConfig (lines 93-104)
CachedConfig(c, t, custom) ==
    [config |-> c, timestamp |-> t,
     cache_time |-> IF custom = 0 THEN LED_CACHE_TIMEOUT ELSE custom]

\* write_config, line 165, never true: the cache is written after four
\* failed attempts as well
RetriesUsedUpNever(retries) == FALSE

\* write_config, line 165
RetriesUsedUp(retries) == retries = 0

\* the loop of lines 153-163: outs are the answers of the bus to the
\* attempts; returns the retries left, the timeout cache, the time (0.2 s of
\* sleep after a failed attempt), the results of the write_data calls and
\* whether one of them raised
RECURSIVE WriteAttempts(_, _, _, _, _, _)
WriteAttempts(retries, cache, t, len, outs, results) ==
    IF retries > 0
    THEN LET r == write_data(cache, LedId, t, I2C_ADDRESS, len,
                             outs[Len(results) + 1])
         IN  IF r.raised
             THEN [retries |-> retries, cache |-> r.cache, t |-> t, raised |-> TRUE,
                   results |-> Append(results, FALSE)]
             ELSE IF r.ret
             THEN [retries |-> retries, cache |-> r.cache, t |-> t, raised |-> FALSE,
                   results |-> Append(results, TRUE)]
             ELSE WriteAttempts(retries - 1, r.cache, t + 200, len, outs,
                                Append(results, FALSE))
    ELSE [retries |-> retries, cache |-> cache, t |-> t, raised |-> FALSE,
          results |-> results]

\* the answers to one write_config call: the first k attempts fail alike, in
\* one of these ways, the later ones are answered with status bytes
FailScripts ==
    {[OkScript EXCEPT !.exc = TRUE],
     [OkScript EXCEPT !.sel = FALSE],
     [OkScript EXCEPT !.status = 2]}

AttemptScripts ==
    {[i \in 1..4 |-> IF i <= k THEN f ELSE g] :
        k \in {0, 1, 3, 4}, f \in FailScripts, g \in {OkScript, [OkScript EXCEPT !.write_status = 3]}}

\* custom_cache of a call: 0 is None
LedCustoms == {0, 60000}

LedTicks == {LED_CACHE_TIMEOUT, 60000}

\* what the tunnel and the LED controller leave alone
LedKeeps == <<scanVars, selDev, selLog, recFailures, recLast, transportVars, apiVars,
              sensorVars, pcfVars, dmVars, coverVars>>

\* a call of DS28E17.write_data
tunnel_write ==
    /\ led_calls < MaxLedCalls
    /\ led_calls' = led_calls + 1
    /\ \E s \in TunnelScripts, len \in {0, 21} :
          LET r == write_data(timeout_cache, LedId, now, I2C_ADDRESS, len, s)
          IN  /\ timeout_cache' = r.cache
              /\ ledLog' = [op |-> "write_data", completed |-> r.completed,
                            raised |-> r.raised, status |-> r.status,
                            write_status |-> r.write_status, ret |-> r.ret]
    /\ UNCHANGED <<now, config_cache, LedKeeps>>

\* a call of DS28E17.read_data
tunnel_read ==
    /\ led_calls < MaxLedCalls
    /\ led_calls' = led_calls + 1
    /\ \E s \in TunnelScripts, data \in LedPayloads :
          LET r == read_data(timeout_cache, LedId, now, I2C_ADDRESS, total_bytes, s, data)
          IN  /\ timeout_cache' = r.cache
              /\ ledLog' = [op |-> "read_data", completed |-> r.completed,
                            raised |-> r.raised, status |-> r.status, ret |-> r.ret]
    /\ UNCHANGED <<now, config_cache, LedKeeps>>

\* LEDController.write_config (lines 130-181)
write_config ==
    /\ led_calls < MaxLedCalls
    /\ led_calls' = led_calls + 1
    /\ \E config \in LedConfigs, custom \in LedCustoms, outs \in AttemptScripts :
          IF ~validate(config)
          THEN /\ UNCHANGED <<now, timeout_cache, config_cache>>
               /\ ledLog' = [op |-> "write_config", before |-> config_cache,
                             config |-> config, results |-> <<>>, ret |-> FALSE]
          ELSE LET a == WriteAttempts(4, timeout_cache, now, Len(ConfigBytes(config)),
                                      outs, <<>>)
                   ok == ~a.raised /\ ~RetriesUsedUp(a.retries)
               IN  /\ now' = a.t
                   /\ timeout_cache' = a.cache
                   /\ config_cache' = IF ok
                                      THEN Put(config_cache, LedId,
                                               CachedConfig(config, a.t, custom))
                                      ELSE config_cache
                   /\ ledLog' = [op |-> "write_config", before |-> config_cache,
                                 config |-> config, results |-> a.results,
                                 ret |-> ok]
    /\ UNCHANGED LedKeeps

\* the answers to the transfer of one read_config call
ReadScripts ==
    {OkScript,
     [OkScript EXCEPT !.exc = TRUE],
     [OkScript EXCEPT !.sel = FALSE],
     [OkScript EXCEPT !.status = None],
     [OkScript EXCEPT !.status = 2]}

\* CachedConfig.is_valid
led_is_valid(c, t) == t - c.timestamp < c.cache_time

\* LEDController.read_config (lines 183-246); the result <<>> is None
read_config ==
    /\ led_calls < MaxLedCalls
    /\ led_calls' = led_calls + 1
    /\ \E use_cache \in BOOLEAN, custom \in LedCustoms, s \in ReadScripts,
          data \in LedPayloads :
          IF use_cache /\ HasEntry(config_cache, LedId)
                       /\ led_is_valid(config_cache[LedId], now)
          THEN /\ UNCHANGED <<timeout_cache, config_cache>>
               /\ ledLog' = [op |-> "read_config", before |-> config_cache,
                             read |-> FALSE, ret |-> <<config_cache[LedId].config>>]
          ELSE LET r == read_data(timeout_cache, LedId, now, I2C_ADDRESS, total_bytes,
                                  s, data)
                   got == ~r.raised /\ r.ret # <<>> /\ Len(r.ret) = total_bytes
                   config == ParseConfig(r.ret)
                   ok == got /\ config.animation \in AnimationCodes /\ validate(config)
               IN  /\ timeout_cache' = r.cache
                   /\ config_cache' = IF ok
                                      THEN Put(config_cache, LedId,
                                               CachedConfig(config, now, custom))
                                      ELSE config_cache
                   /\ ledLog' = [op |-> "read_config", before |-> config_cache,
                                 read |-> TRUE,
                                 ret |-> IF ok THEN <<config>> ELSE <<>>]
    /\ UNCHANGED <<now, LedKeeps>>

\* time passes between two calls
LedTick ==
    /\ ticks < MaxTicks
    /\ ticks' = ticks + 1
    /\ \E dt \in LedTicks : now' = now + dt
    /\ ledLog' = NoLedCall
    /\ UNCHANGED <<config_cache, led_calls, scanVars, selVars, transportVars, apiVars,
                   sensorNoTicks, pcfVars, dmVars, coverVars>>

InitLedOnly ==
    /\ InitBusScanned({RomL})
    /\ InitTransport
    /\ InitApi
    /\ InitSensors({0})
    /\ InitIo

NextTunnel ==
    \/ tunnel_write
    \/ tunnel_read
    \/ LedTick

SpecTunnel == InitLedOnly /\ [][NextTunnel]_vars

NextLed ==
    \/ write_config
    \/ read_config
    \/ LedTick

SpecLed == InitLedOnly /\ [][NextLed]_vars

\* a tunnel transfer has returned after reading its status
TunnelDone == ledLog.op \in {"write_data", "read_data"} /\ ledLog.completed

(***************************************************************************)
(* C21 as stated: a tunnel write returns True only if both status bytes    *)
(* read after completion are zero, a tunnel read returns payload bytes     *)
(* only if its status byte is zero; any non-zero status makes the          *)
(* operation return False / None.                                          *)
(***************************************************************************)
C21_NonZeroStatusFails ==
    /\ (TunnelDone /\ ledLog.op = "write_data") =>
          (ledLog.ret <=> (ledLog.status = 0 /\ ledLog.write_status = 0))
    /\ (TunnelDone /\ ledLog.op = "read_data") =>
          (ledLog.ret # <<>> => ledLog.status = 0)

\* C21 for the first status byte of a write alone: this much holds
WriteStatusFirstByte ==
    (TunnelDone /\ ledLog.op = "write_data") => (ledLog.ret => ledLog.status = 0)

\* the write_data calls of a write_config call that returned True
Succeeded(results) == {i \in 1..Len(results) : results[i]}

(***************************************************************************)
(* C22: write_config makes at most 4 tunnel write attempts, stops at the   *)
(* first that succeeds and returns True exactly when one succeeded; the    *)
(* cached configuration is replaced if and only if write_config returns    *)
(* True, and a read_config that fails leaves the cache as it was.          *)
(***************************************************************************)
C22_CacheFollowsWrite ==
    /\ ledLog.op = "write_config" =>
          /\ Len(ledLog.results) <= 4
          /\ Succeeded(ledLog.results) \subseteq {Len(ledLog.results)}
          /\ ledLog.ret <=> Succeeded(ledLog.results) # {}
          /\ ledLog.ret => /\ HasEntry(config_cache, LedId)
                           /\ config_cache[LedId].config = ledLog.config
                           /\ config_cache[LedId].timestamp = now
          /\ ~ledLog.ret => config_cache = ledLog.before
    /\ (ledLog.op = "read_config" /\ ledLog.ret = <<>>) =>
          config_cache = ledLog.before

\* a write_config has succeeded at its fourth attempt and replaced a cached
\* configuration by another one
C22_Witness ==
    /\ ledLog.op = "write_config"
    /\ ledLog.ret
    /\ Len(ledLog.results) = 4
    /\ HasEntry(ledLog.before, LedId)
    /\ config_cache[LedId].config # ledLog.before[LedId].config

\* a write_config has given up after four attempts, a cache entry in place
C22_WitnessFailed ==
    /\ ledLog.op = "write_config"
    /\ ~ledLog.ret
    /\ Len(ledLog.results) = 4
    /\ HasEntry(config_cache, LedId)

(***************************************************************************)
(* C31 as stated: two bus read transactions of read_ports to one digital   *)
(* module are at least 10 ms apart, whether or not the earlier one         *)
(* succeeded; a call made sooner returns the cached values and sends       *)
(* nothing.                                                                *)
(***************************************************************************)
C31_ReadsTenMsApart ==
    dmLog.op = "read_ports" =>
        /\ (dmLog.issued /\ dmLog.before.bus_time # None) =>
              now - dmLog.before.bus_time >= read_interval
        /\ ~dmLog.issued => dmLog.ret = dmLog.before.last_values /\ dmLog.consumed = 0

\* C31 for transactions that follow an accepted response: this much holds
ReadsAfterSuccessApart ==
    (dmLog.op = "read_ports" /\ dmLog.issued
        /\ dmLog.before.bus_time = dmLog.before.last_read_time) =>
        now - dmLog.before.bus_time >= read_interval

\* byte a differs from byte b in no bit other than bit `port`
OnlyBit(a, b, port) == \A k \in (0..7) \ {port} : BitOf(a, k) = BitOf(b, k)

\* the cached state a write_port call found was valid
CacheWasValid == 0 <= pcfLog.last_before /\ pcfLog.last_before <= 255

SentBeforeRead ==
    IF CacheWasValid THEN <<>>
    ELSE SubSeq(pcfLog.sent, 1,
                Len(pcfLog.sent) - (IF pcfLog.written # None THEN 1 ELSE 0))

\* does not hold: the read of an invalid cache is preceded by a write of 0xFF
\* (line 78), which releases an output that was found energized
OutputsKeptBeforeRead ==
    pcfLog.op = "write_port" =>
        \A i \in 1..Len(SentBeforeRead) :
            OnlyBit(SentBeforeRead[i], pcfLog.latch_before, pcfLog.port)

(***************************************************************************)
(* The maintenance marker of the bridge                                    *)
(***************************************************************************)
\* bytes FF EE 01 at the head of a payload
StartsWithMarker(payload) ==
    /\ Len(payload) >= 3
    /\ payload[1] = 255 /\ payload[2] = 238 /\ payload[3] = 1

\* thread t reads, in this step, a well-formed frame that carries the marker
MarkerReceived(t) ==
    /\ tpc[t] = "sent"
    /\ rx[t] = NoFrame
    /\ rx'[t] # NoFrame
    /\ CrcMatches(rx'[t])
    /\ StartsWithMarker(rx'[t].payload)

MarkerHandled(t) ==
    /\ sock' = "none"
    /\ tres'[t].kind # "ok"
    /\ slept'[t] > slept[t]
    /\ IF attempt[t] < 2
       THEN /\ attempt'[t] = attempt[t] + 1
            /\ tpc'[t] = "loop"
            /\ io_lock' = t
            /\ tres'[t] = NoResult
       ELSE /\ tpc'[t] = "idle"
            /\ tres'[t] = [kind |-> "error", attempts |-> 3]

\* C33: a response whose payload starts with FF EE 01 is never returned by
\* _send_command; on receiving it the socket is dropped, the attempt counts
\* as failed, and after a sleep the loop starts the next attempt, or, on the
\* third attempt, SMBusProxyError leaves the call
C33_MaintenanceNeverReturned ==
    /\ [](\A t \in Threads :
             tres[t].kind = "ok" => ~StartsWithMarker(tres[t].payload))
    /\ [][\A t \in Threads : MarkerReceived(t) => MarkerHandled(t)]_vars

\* a marker frame was read in the second attempt and the third is about to start
C33_Witness ==
    \E t \in Threads :
        /\ rx[t] # NoFrame /\ CrcMatches(rx[t]) /\ StartsWithMarker(rx[t].payload)
        /\ tpc[t] = "loop" /\ attempt[t] = 2 /\ sock = "none"

\* a marker frame was read in the third attempt and the call gave up
C33_WitnessGivenUp ==
    \E t \in Threads :
        /\ rx[t] # NoFrame /\ CrcMatches(rx[t]) /\ StartsWithMarker(rx[t].payload)
        /\ tres[t] = [kind |-> "error", attempts |-> 3]

(***************************************************************************)
(* DS18B20: a scratchpad read that fails                                   *)
(***************************************************************************)
\* this step is a poll in READING whose _read_temperature returned None:
\* select_device refused or failed, a byte or the CRC was wrong, or the
\* scratchpad held the power-on value
ScratchpadReadFailed ==
    /\ Ds18b20Poll
    /\ sstate = "READING" /\ ~EarlyReturn /\ conversion_ready
    /\ (pollLog'.fault # "none" \/ pollLog'.cmd = "none")

\* C35: a failed scratchpad read leaves the cached Reading as it was and puts
\* the state machine back to IDLE, so that the next poll starts a conversion
C35_FailedReadBackToIdle ==
    [][ScratchpadReadFailed => reading' = reading /\ sstate' = "IDLE"]_vars

\* the part of C35 about the cache alone
FailedReadKeepsReading ==
    [][ScratchpadReadFailed => reading' = reading]_vars

(***************************************************************************)
(* The two relays of one blind                                             *)
(***************************************************************************)
\* C36: whatever the order of open, close and stop calls and of the steps of
\* the motion task, the up and the down output of the blind are never both
\* energized
C36_NeverBothEnergized == ~(blind.up /\ blind.down)

(***************************************************************************)
(* CasaITApi (api.py): the initialization task, the poll loops and the     *)
(* stop event.  init_task is the position of _async_initialize ("none":    *)
(* _init_task is None), loops[i] the position of the i-th task created for *)
(* _poll_loop, poll_task the task _poll_task refers to (0: None),          *)
(* pcf_states the round whose snapshot is published (0: none yet).         *)
(***************************************************************************)
Running(l) == {i \in 1..MaxLoops : l.loops[i] \notin {"none", "ended"}}

Unused(l) == {i \in 1..MaxLoops : l.loops[i] = "none"}

\* an Event.is_set that never sees the event set
is_set_never(event) == FALSE

\* asyncio.Event.is_set, as _poll_loop asks it (line 164)
is_set(event) == event = "set"

\* an except clause that gives the loop up
except_Exception_ends == "ended"

\* lines 167-170: except Exception: log, sleep for the poll interval, continue
except_Exception == "sleep"

\* leaving _async_initialize with the event set on the success path only
finally_on_success(l, how) ==
    [l EXCEPT !.init_task = how, !.init_done = IF how = "done" THEN TRUE ELSE @]

\* lines 82-88: except CancelledError sets the event and re-raises, except
\* Exception logs, finally sets the event
finally(l, how) == [l EXCEPT !.init_task = how, !.init_done = TRUE]

\* start_initialization (lines 47-55)
start_initialization(l, dm_config) ==
    IF l.init_task # "none" THEN l
    ELSE [l EXCEPT !.init_task = "scan", !.dm_config = dm_config]

\* start_polling (lines 141-148): a new event and a new task, unless
\* _poll_task is set
start_polling(l) ==
    IF l.poll_task # 0 THEN l
    ELSE LET i == CHOOSE j \in Unused(l) : \A k \in Unused(l) : j <= k
         IN  [l EXCEPT !.stop_event = "clear", !.poll_task = i, !.loops[i] = "head"]

LifeKeeps == <<now, scanVars, selVars, transportVars, sensorVars, ioVars, lock,
               lockWaiters, apiRest, published>>

\* async_setup_entry (__init__.py:62-63) calls start_initialization
SetupEntry ==
    /\ life.init_task = "none"
    /\ \E dm_config \in BOOLEAN : life' = start_initialization(life, dm_config)
    /\ UNCHANGED LifeKeeps

\* await self.scan_devices() (line 77) returns or raises
InitScanned ==
    /\ life.init_task = "scan"
    /\ \E raised \in BOOLEAN :
          life' = IF raised THEN finally(life, "error")
                  ELSE [life EXCEPT !.init_task = IF life.dm_config THEN "configure"
                                                  ELSE "start"]
    /\ UNCHANGED LifeKeeps

\* await self.async_configure_dm117(dm_config) (lines 79-80) returns or raises
InitConfigured ==
    /\ life.init_task = "configure"
    /\ \E raised \in BOOLEAN :
          life' = IF raised THEN finally(life, "error")
                  ELSE [life EXCEPT !.init_task = "start"]
    /\ UNCHANGED LifeKeeps

\* await self.start_polling() (line 81), which never suspends, then finally
InitStartPolling ==
    /\ life.init_task = "start"
    /\ life.poll_task = 0 => Unused(life) # {}
    /\ life' = finally(start_polling(life), "done")
    /\ UNCHANGED LifeKeeps

\* the task is cancelled while it is suspended in one of its awaits
InitCancelled ==
    /\ life.init_task \in {"scan", "configure"}
    /\ life' = finally(life, "cancelled")
    /\ UNCHANGED LifeKeeps

\* a platform calls async_wait_initialized() (lines 57-69), up to the await
WaitInitialized ==
    /\ life.waiter = "idle"
    /\ life' = [start_initialization(life, FALSE) EXCEPT !.waiter = "waiting"]
    /\ UNCHANGED LifeKeeps

\* self._init_done.wait() returns
WaitReturns ==
    /\ life.waiter = "waiting"
    /\ life.init_done
    /\ life' = [life EXCEPT !.waiter = "released"]
    /\ UNCHANGED LifeKeeps

\* the head of the while loop of _poll_loop (line 164): leave, or enter
\* _poll_once
LoopHead(i) ==
    /\ life.loops[i] = "head"
    /\ IF life.stop_event = "none" \/ is_set(life.stop_event)
       THEN life' = [life EXCEPT !.loops[i] = "ended"]
       ELSE /\ life.rounds < MaxRounds
            /\ life' = [life EXCEPT !.loops[i] = "pass", !.rounds = @ + 1]
    /\ UNCHANGED LifeKeeps

\* _poll_once returns, having published its snapshot (lines 211-213), or
\* raises out of the block that reads the modules
PassOver(i) ==
    /\ life.loops[i] = "pass"
    /\ \E raised \in BOOLEAN :
          life' = IF raised THEN [life EXCEPT !.loops[i] = except_Exception]
                  ELSE [life EXCEPT !.loops[i] = "wait", !.pcf_states = life.rounds]
    /\ UNCHANGED LifeKeeps

\* asyncio.sleep of line 169 is over; or wait_for of line 172 returns, the
\* event being set, or times out
Resume(i) ==
    /\ life.loops[i] \in {"sleep", "wait"}
    /\ life' = [life EXCEPT !.loops[i] = "head"]
    /\ UNCHANGED LifeKeeps

\* async_unload_entry (__init__.py:88-92): async_wait_initialized(timeout=5)
UnloadEntry ==
    /\ life.unload = "idle"
    /\ life.init_task # "none"
    /\ life' = [life EXCEPT !.unload = "wait_init"]
    /\ UNCHANGED LifeKeeps

\* the event is set, or the 5 s are over
UnloadWaited ==
    /\ life.unload = "wait_init"
    /\ life' = [life EXCEPT !.unload = "stop"]
    /\ UNCHANGED LifeKeeps

\* stop_polling (lines 150-156), up to `await self._poll_task`
stop_polling ==
    /\ life.unload = "stop"
    /\ life' = IF life.poll_task = 0 \/ life.stop_event = "none"
               THEN [life EXCEPT !.unload = "returned"]
               ELSE [life EXCEPT !.stop_event = "set", !.unload = "await_task"]
    /\ UNCHANGED LifeKeeps

\* the awaited task is over (lines 157-159)
StopReturns ==
    /\ life.unload = "await_task"
    /\ life.loops[life.poll_task] = "ended"
    /\ life' = [life EXCEPT !.poll_task = 0, !.stop_event = "none",
                            !.unload = "returned"]
    /\ UNCHANGED LifeKeeps

\* start_polling is called once more
StartAgain ==
    /\ life.init_task \in {"done", "error", "cancelled"}
    /\ life.poll_task = 0 => Unused(life) # {}
    /\ life' = start_polling(life)
    /\ UNCHANGED LifeKeeps

\* stop_polling is called once more
StopAgain ==
    /\ life.unload = "returned"
    /\ life' = [life EXCEPT !.unload = "stop"]
    /\ UNCHANGED LifeKeeps

InitLifeOnly ==
    /\ InitBusReady(BootTime)
    /\ InitTransport
    /\ InitApi
    /\ InitSensors({0})
    /\ InitIo

InitializeStep == InitScanned \/ InitConfigured \/ InitStartPolling

NextStartup ==
    \/ SetupEntry
    \/ InitScanned
    \/ InitConfigured
    \/ InitStartPolling
    \/ InitCancelled
    \/ WaitInitialized
    \/ WaitReturns
    \/ UnloadEntry
    \/ UnloadWaited
    \/ stop_polling
    \/ StopReturns
    \/ \E i \in 1..MaxLoops :
          \/ LoopHead(i)
          \/ PassOver(i)
          \/ Resume(i)

NextLife ==
    \/ NextStartup
    \/ StartAgain
    \/ StopAgain

SpecLife == InitLifeOnly /\ [][NextLife]_vars

\* the event loop runs every task that is ready: the steps of
\* _async_initialize and the wake-up of a waiter are not put off for ever
SpecStartup ==
    InitLifeOnly /\ [][NextStartup]_vars /\ WF_vars(InitializeStep) /\ WF_vars(WaitReturns)

\* the event loop runs the poll loop and wakes stop_polling when the task
\* it awaits is over
LoopStep == \E i \in 1..MaxLoops : LoopHead(i) \/ PassOver(i) \/ Resume(i)

SpecStopping ==
    InitLifeOnly /\ [][NextLife]_vars /\ WF_vars(LoopStep) /\ WF_vars(StopReturns)

(***************************************************************************)
(* Stopping and restarting the poll loop                                   *)
(***************************************************************************)
PassBegins(i) == life.loops[i] # "pass" /\ life'.loops[i] = "pass"

StopHasReturned == life.unload # "returned" /\ life'.unload = "returned"

LoopCreated == life.poll_task = 0 /\ life'.poll_task # 0

\* C34: once stop_polling has set the event no loop enters a further pass,
\* and the loop ends; stop_polling returns only when no loop is left
\* running; a start_polling after that creates exactly one new loop
C34_StopEndsLoop ==
    /\ [][/\ \A i \in 1..MaxLoops : PassBegins(i) => life.stop_event = "clear"
          /\ StopHasReturned => Running(life) = {} /\ Running(life') = {}
          /\ LoopCreated =>
                /\ Running(life) = {}
                /\ Cardinality(Running(life')) = 1
                /\ Cardinality(Unused(life) \ Unused(life')) = 1
                /\ life'.stop_event = "clear"]_vars
    /\ (life.unload = "await_task") ~> (life.unload = "returned")

\* the first loop was stopped after a pass and a second one has been started
C34_Witness ==
    /\ life.loops[1] = "ended"
    /\ life.pcf_states = 1
    /\ life.loops[2] = "pass"
    /\ life.unload = "returned"

(***************************************************************************)
(* An exception in a poll pass                                             *)
(***************************************************************************)
PassRaised(i) == life.loops[i] = "pass" /\ life'.loops[i] \notin {"pass", "wait"}

\* C37: a pass that raises leaves the published snapshot alone and sends the
\* loop to its sleep and back to the head of the loop, where a new pass
\* begins unless the stop event is set; a loop ends only at the head and
\* only with the event set
C37_ExceptionKeepsLoop ==
    [][\A i \in 1..MaxLoops :
          /\ PassRaised(i) =>
                /\ life'.loops[i] = "sleep"
                /\ life'.pcf_states = life.pcf_states
          /\ (life.loops[i] = "sleep" /\ life'.loops[i] # "sleep") =>
                life'.loops[i] = "head"
          /\ (life.loops[i] = "head" /\ life'.loops[i] # "head") =>
                life'.loops[i] = IF life.stop_event = "clear" THEN "pass" ELSE "ended"
          /\ (life.loops[i] # "ended" /\ life'.loops[i] = "ended") =>
                life.loops[i] = "head" /\ life.stop_event = "set"]_vars

\* the second pass raised: the snapshot of the first is still in place
C37_Witness ==
    \E i \in 1..MaxLoops :
        life.loops[i] = "sleep" /\ life.rounds = 2 /\ life.pcf_states = 1

\* a pass was begun after an earlier one had raised
C37_WitnessGoesOn ==
    \E i \in 1..MaxLoops :
        life.loops[i] = "pass" /\ life.rounds = 2 /\ life.pcf_states = 0

(***************************************************************************)
(* The initialization event                                                *)
(***************************************************************************)
\* C38: once _async_initialize has been started the event is set in the end,
\* whether the task succeeds, fails in the scan or in the configuration, or
\* is cancelled; a caller of async_wait_initialized is released in the end
C38_InitDoneEventuallySet ==
    /\ (life.init_task # "none") ~> life.init_done
    /\ (life.waiter = "waiting") ~> (life.waiter = "released")

\* the task was cancelled and the waiter has been released
C38_Witness ==
    life.init_task = "cancelled" /\ life.init_done /\ life.waiter = "released"

\* the configuration raised and the waiter has been released
C38_WitnessError ==
    /\ life.init_task = "error" /\ life.dm_config /\ life.poll_task = 0
    /\ life.init_done /\ life.waiter = "released"

====
